---- MODULE Spec2Model ----
(***************************************************************************)
(* Template pipeline of slick_sheet_studio: the hand-written parser of     *)
(* src/template/parser.rs as a state machine over the bytes of the         *)
(* template, and the renderer of src/template/engine.rs as operators over  *)
(* the parsed AST and a content record; and the compiler world of          *)
(* src/world/mod.rs: its files, its compilation to SVG with link overlays  *)
(* and the LIBRARY static.                                                 *)
(*                                                                         *)
(* Strings are sequences of bytes; a byte is a one-character string, and   *)
(* the bytes of the two non-ASCII characters used in the inputs are named  *)
(* by their hexadecimal value: U+00E9 is <<"C3","A9">> and the white-space *)
(* character U+00A0 is <<"C2","A0">>.                                      *)
(***************************************************************************)
EXTENDS Integers, Sequences, FiniteSets, TLC

VARIABLES input, pos, stack, pc, result, iters, data, render_result, visits,
          world, calls, world_result, compiled, page_links,
          LIBRARY, threads, constructed,
          tool, tool_pc, tool_result, tool_log, used_vars,
          agent, state, agent_pc, chats, compiles, agent_result,
          editor, editor_pc, editor_ret

\* the template engine; a world and its compilation; the LIBRARY static
template_vars == <<input, pos, stack, pc, result, iters, data, render_result, visits>>
world_vars == <<world, calls, world_result, compiled, page_links>>
library_vars == <<LIBRARY, threads, constructed>>

tool_vars == <<tool, tool_pc, tool_result, tool_log, used_vars>>

agent_vars == <<agent, state, agent_pc, chats, compiles, agent_result>>

editor_vars == <<editor, editor_pc, editor_ret>>

vars == <<template_vars, world_vars, library_vars, tool_vars, agent_vars, editor_vars>>

(***************************************************************************)
(* Bounds of the model.                                                    *)
(***************************************************************************)
MaxPieces == 3
MaxIters == 16
MaxOps == 3
MaxItems == 2
MaxPages == 2
MaxThreads == 3
MaxCalls == 3
MaxIterations == 3

(***************************************************************************)
(* Option<T>                                                               *)
(***************************************************************************)
None == [some |-> FALSE]
Some(v) == [some |-> TRUE, v |-> v]

(***************************************************************************)
(* Bytes, characters and slices of a Rust &str.                            *)
(***************************************************************************)
PANIC == -1

Utf8Continuation == {"A9", "A0"}

NUL == "NUL"

IsCharBoundary(s, i) ==
    \/ i = 0
    \/ i = Len(s)
    \/ i > 0 /\ i < Len(s) /\ s[i + 1] \notin Utf8Continuation

Slice(s, from, to) == SubSeq(s, from + 1, to)

StartsWith(s, p, t) ==
    /\ p + Len(t) <= Len(s)
    /\ SubSeq(s, p + 1, p + Len(t)) = t

\* char::is_whitespace, on the character named by its first byte
is_whitespace(c) == c \in {" ", "\n", "C2"}

\* the character at byte offset p, named by its first byte
current_char(s, p) == IF p >= Len(s) THEN NUL ELSE s[p + 1]

RECURSIVE skip_whitespace(_, _)
skip_whitespace(s, p) ==
    IF p = PANIC THEN PANIC
    ELSE IF p >= Len(s) THEN p
    ELSE IF ~IsCharBoundary(s, p) THEN PANIC
    ELSE IF is_whitespace(current_char(s, p)) THEN skip_whitespace(s, p + 1)
    ELSE p

\* the loops `while pos < len { c = current_char(); if <stop> break; pos += 1 }`
RECURSIVE ScanUntil(_, _, _, _)
ScanUntil(s, p, stopChars, stopAtSpace) ==
    IF p = PANIC THEN PANIC
    ELSE IF p >= Len(s) THEN p
    ELSE IF ~IsCharBoundary(s, p) THEN PANIC
    ELSE IF current_char(s, p) \in stopChars THEN p
    ELSE IF stopAtSpace /\ is_whitespace(current_char(s, p)) THEN p
    ELSE ScanUntil(s, p + 1, stopChars, stopAtSpace)

OpenMarker == <<"{", "{">>
CloseMarker == <<"}", "}">>
T_else == <<"{", "{", "e", "l", "s", "e", "}", "}">>
T_endif == <<"{", "{", "/", "i", "f", "}", "}">>
T_endeach == <<"{", "{", "/", "e", "a", "c", "h", "}", "}">>
S_if == <<"i", "f">>
S_each == <<"e", "a", "c", "h">>
S_default == <<"d", "e", "f", "a", "u", "l", "t", ":">>

RECURSIVE parse_text(_, _)
parse_text(s, p) ==
    IF p >= Len(s) THEN p
    ELSE IF ~IsCharBoundary(s, p) THEN PANIC
    ELSE IF StartsWith(s, p, OpenMarker) THEN p
    ELSE parse_text(s, p + 1)

\* str::trim
RECURSIVE TrimStart(_)
TrimStart(s) ==
    IF s = <<>> THEN s
    ELSE IF is_whitespace(s[1])
         THEN TrimStart(SubSeq(s, (IF s[1] = "C2" THEN 3 ELSE 2), Len(s)))
    ELSE s

RECURSIVE TrimEnd(_)
TrimEnd(s) ==
    IF s = <<>> THEN s
    ELSE IF s[Len(s)] \in {" ", "\n"} THEN TrimEnd(SubSeq(s, 1, Len(s) - 1))
    ELSE IF Len(s) >= 2 /\ s[Len(s)] = "A0" /\ s[Len(s) - 1] = "C2"
         THEN TrimEnd(SubSeq(s, 1, Len(s) - 2))
    ELSE s

Trim(s) == TrimEnd(TrimStart(s))

\* str::split('.'): the pieces between the dots, empty pieces included
RECURSIVE SplitFrom(_, _, _)
SplitFrom(s, i, cur) ==
    IF i > Len(s) THEN <<cur>>
    ELSE IF s[i] = "." THEN <<cur>> \o SplitFrom(s, i + 1, <<>>)
    ELSE SplitFrom(s, i + 1, Append(cur, s[i]))

Split(s) == SplitFrom(s, 1, <<>>)

NonEmptyOnly(segs) == SelectSeq(segs, LAMBDA x : x # <<>>)

(***************************************************************************)
(* AST nodes and parse errors.                                             *)
(***************************************************************************)
Text(t) == [type |-> "Text", text |-> t]
Variable(path, default) == [type |-> "Variable", path |-> path, default |-> default]
Conditional(path, thenB, elseB) ==
    [type |-> "Conditional", path |-> path, then_branch |-> thenB, else_branch |-> elseB]
Loop(path, body) == [type |-> "Loop", path |-> path, body |-> body]

UnclosedTag(tag, position) == [type |-> "UnclosedTag", tag |-> tag, position |-> position]
UnexpectedClosingTag(expected, found) ==
    [type |-> "UnexpectedClosingTag", expected |-> expected, found |-> found]
InvalidSyntax(message, arg, position) ==
    [type |-> "InvalidSyntax", message |-> message, arg |-> arg, position |-> position]
EmptyVariableName(position) == [type |-> "EmptyVariableName", position |-> position]

\* impl Display for ParseError: the format string and its arguments
to_string(e) ==
    CASE e.type = "UnclosedTag" ->
            [fmt |-> "Unclosed tag '{}' at position {}", a |-> <<e.tag>>, n |-> <<e.position>>]
      [] e.type = "UnexpectedClosingTag" ->
            [fmt |-> "Expected closing tag '{}', found '{}'", a |-> <<e.expected, e.found>>, n |-> <<>>]
      [] e.type = "InvalidSyntax" ->
            [fmt |-> "Invalid syntax at position {}: {}", a |-> <<e.message, e.arg>>, n |-> <<e.position>>]
      [] e.type = "EmptyVariableName" ->
            [fmt |-> "Empty variable name at position {}", a |-> <<>>, n |-> <<e.position>>]

\* outcomes of the parsing helpers
Panicked == [kind |-> "panic"]
Failed(e) == [kind |-> "err", err |-> e]

(***************************************************************************)
(* Parser::parse_default_value, from offset p: the new offset and the      *)
(* default.                                                                *)
(***************************************************************************)
\* parse_default_value taking a literal that is not closed as no default
parse_default_value_lenient(s, p) ==
    IF ~StartsWith(s, p, <<"|">>) THEN [kind |-> "ok", pos |-> p, default |-> None]
    ELSE
    LET p1 == skip_whitespace(s, p + 1) IN
    IF p1 = PANIC THEN Panicked
    ELSE IF ~StartsWith(s, p1, S_default) THEN [kind |-> "ok", pos |-> p1, default |-> None]
    ELSE
    LET p2 == skip_whitespace(s, p1 + 8) IN
    IF p2 = PANIC THEN Panicked
    ELSE
    LET quote == current_char(s, p2) IN
    IF quote # "'" /\ quote # "\"" THEN [kind |-> "ok", pos |-> p2, default |-> None]
    ELSE
    LET default_start == p2 + 1
        p3 == ScanUntil(s, default_start, {quote, "}"}, FALSE)
    IN
    IF p3 = PANIC THEN Panicked
    ELSE IF p3 >= Len(s) \/ s[p3 + 1] # quote
         THEN [kind |-> "ok", pos |-> p3, default |-> None]
    ELSE [kind |-> "ok",
          pos |-> IF p3 < Len(s) THEN p3 + 1 ELSE p3,
          default |-> Some(Slice(s, default_start, p3))]

parse_default_value(s, p) ==
    IF ~StartsWith(s, p, <<"|">>) THEN [kind |-> "ok", pos |-> p, default |-> None]
    ELSE
    LET p1 == skip_whitespace(s, p + 1) IN
    IF p1 = PANIC THEN Panicked
    ELSE IF ~StartsWith(s, p1, S_default) THEN [kind |-> "ok", pos |-> p1, default |-> None]
    ELSE
    LET p2 == skip_whitespace(s, p1 + 8) IN
    IF p2 = PANIC THEN Panicked
    ELSE
    LET quote == current_char(s, p2) IN
    IF quote # "'" /\ quote # "\"" THEN [kind |-> "ok", pos |-> p2, default |-> None]
    ELSE
    LET default_start == p2 + 1
        p3 == ScanUntil(s, default_start, {quote}, FALSE)
    IN
    IF p3 = PANIC THEN Panicked
    ELSE [kind |-> "ok",
          pos |-> IF p3 < Len(s) THEN p3 + 1 ELSE p3,
          default |-> Some(Slice(s, default_start, p3))]

(***************************************************************************)
(* Parser::parse_variable, entered at offset p0 of a tag opened at         *)
(* tag_start.                                                              *)
(***************************************************************************)
parse_variable(s, tag_start, p0) ==
    LET var_start == skip_whitespace(s, p0) IN
    IF var_start = PANIC THEN Panicked
    ELSE
    LET p1 == ScanUntil(s, var_start, {"}", "|"}, TRUE) IN
    IF p1 = PANIC THEN Panicked
    ELSE
    LET path == NonEmptyOnly(Split(Trim(Slice(s, var_start, p1)))) IN
    IF path = <<>> THEN Failed(EmptyVariableName(var_start))
    ELSE
    LET p2 == skip_whitespace(s, p1) IN
    IF p2 = PANIC THEN Panicked
    ELSE
    LET d == parse_default_value(s, p2) IN
    IF d.kind = "panic" THEN Panicked
    ELSE
    LET p3 == skip_whitespace(s, d.pos) IN
    IF p3 = PANIC THEN Panicked
    ELSE IF ~StartsWith(s, p3, CloseMarker)
         THEN Failed(InvalidSyntax("Expected '}}' to close variable tag", <<>>, tag_start))
    ELSE [kind |-> "node", pos |-> p3 + 2, node |-> Variable(path, d.default)]

(***************************************************************************)
(* Parser::parse_block_tag up to the dispatch on the block type, entered   *)
(* at offset p0 (after the `#`).                                           *)
(***************************************************************************)
parse_block_tag(s, tag_start, p0) ==
    LET type_start == skip_whitespace(s, p0) IN
    IF type_start = PANIC THEN Panicked
    ELSE
    LET p1 == ScanUntil(s, type_start, {"}"}, TRUE) IN
    IF p1 = PANIC THEN Panicked
    ELSE
    LET block_type == Slice(s, type_start, p1)
        path_start == skip_whitespace(s, p1)
    IN
    IF path_start = PANIC THEN Panicked
    ELSE
    LET p2 == ScanUntil(s, path_start, {"}"}, TRUE) IN
    IF p2 = PANIC THEN Panicked
    ELSE
    LET path == Split(Trim(Slice(s, path_start, p2)))
        p3 == skip_whitespace(s, p2)
    IN
    IF p3 = PANIC THEN Panicked
    ELSE IF ~StartsWith(s, p3, CloseMarker)
         THEN Failed(InvalidSyntax("Expected '}' after block tag '{}'", block_type, p3))
    ELSE IF block_type = S_if
         THEN [kind |-> "block", pos |-> p3 + 2, block |-> "if", path |-> path]
    ELSE IF block_type = S_each
         THEN [kind |-> "block", pos |-> p3 + 2, block |-> "each", path |-> path]
    ELSE Failed(InvalidSyntax("Unknown block type: {}", block_type, type_start))

(***************************************************************************)
(* Parser::parse_tag at offset p (where the input has `{{`): a node, a     *)
(* block to descend into, Ok(None) for a closing tag, an error or a panic. *)
(***************************************************************************)
parse_tag(s, p) ==
    LET tag_start == p
        p1 == skip_whitespace(s, p + 2)
    IN
    IF p1 = PANIC THEN Panicked
    ELSE IF StartsWith(s, p1, <<"#">>) THEN parse_block_tag(s, tag_start, p1 + 1)
    ELSE IF StartsWith(s, p1, <<"/">>) THEN [kind |-> "none", pos |-> tag_start]
    ELSE parse_variable(s, tag_start, p1)

(***************************************************************************)
(* The recursion of parse_nodes, parse_if_block and parse_each_block as a  *)
(* stack of activations of parse_nodes.  An activation holds the nodes it  *)
(* has collected and, for the activation of a block, the block's path, the *)
(* offset of its opening tag and (in an else-branch) the finished          *)
(* then-branch.                                                            *)
(***************************************************************************)
Frame(kind, path, tag_start, thenB) ==
    [kind |-> kind, nodes |-> <<>>, path |-> path, tag_start |-> tag_start,
     then_branch |-> thenB]

end_tags(kind) ==
    CASE kind = "top" -> {}
      [] kind = "then" -> {T_else, T_endif}
      [] kind = "else" -> {T_endif}
      [] kind = "each" -> {T_endeach}

Top == stack[Len(stack)]

AtEndTag == \E t \in end_tags(Top.kind) : StartsWith(input, pos, t)

\* a node going to the outermost activation instead of the innermost
PushNode_outermost(stk, node) ==
    [stk EXCEPT ![1].nodes = Append(@, node)]

PushNode(stk, node) ==
    [stk EXCEPT ![Len(stk)].nodes = Append(@, node)]

Pop(stk) == SubSeq(stk, 1, Len(stk) - 1)

\* an error ends the parse (`?` up to parse_template); the parser and its
\* cursor are dropped, pos keeps the offset at which the iteration began
Fail(e) ==
    /\ pc' = "failed"
    /\ result' = Failed(e)
    /\ stack' = <<>>
    /\ UNCHANGED pos

\* a slice off a character boundary aborts the parse
Panic ==
    /\ pc' = "panicked"
    /\ result' = Panicked
    /\ stack' = <<>>
    /\ UNCHANGED pos

(***************************************************************************)
(* The end of parse_if_block and of parse_each_block: the closing marker   *)
(* is required, the block's node goes to the enclosing activation.         *)
(***************************************************************************)
if_block_end(f, thenB, elseB) ==
    IF ~StartsWith(input, pos, T_endif)
    THEN Fail(UnclosedTag("if", f.tag_start))
    ELSE /\ pos' = pos + 7
         /\ stack' = PushNode(Pop(stack), Conditional(f.path, thenB, elseB))
         /\ UNCHANGED <<pc, result>>

\* parse_each_block accepting a body that ends without `{{/each}}`
each_block_end_lenient(f) ==
    /\ pos' = IF StartsWith(input, pos, T_endeach) THEN pos + 9 ELSE pos
    /\ stack' = PushNode(Pop(stack), Loop(f.path, f.nodes))
    /\ UNCHANGED <<pc, result>>

each_block_end(f) ==
    IF ~StartsWith(input, pos, T_endeach)
    THEN Fail(UnclosedTag("each", f.tag_start))
    ELSE /\ pos' = pos + 9
         /\ stack' = PushNode(Pop(stack), Loop(f.path, f.nodes))
         /\ UNCHANGED <<pc, result>>

(***************************************************************************)
(* parse_nodes leaves its loop, at the end of the input or in front of one *)
(* of its end tags, and its caller goes on: parse_template returns the     *)
(* nodes, parse_if_block and parse_each_block look for their markers.      *)
(***************************************************************************)
ParseNodesReturn ==
    /\ pc = "parsing"
    /\ pos >= Len(input) \/ AtEndTag
    /\ LET f == Top IN
       CASE f.kind = "top" ->
              /\ pc' = "parsed"
              /\ result' = [kind |-> "ok", nodes |-> f.nodes]
              /\ stack' = <<>>
              /\ UNCHANGED pos
         [] f.kind = "then" ->
              IF StartsWith(input, pos, T_else)
              THEN /\ pos' = pos + 8
                   /\ stack' = Append(Pop(stack),
                                      Frame("else", f.path, f.tag_start, f.nodes))
                   /\ UNCHANGED <<pc, result>>
              ELSE if_block_end(f, f.nodes, <<>>)
         [] f.kind = "else" -> if_block_end(f, f.then_branch, f.nodes)
         [] f.kind = "each" -> each_block_end(f)
    /\ UNCHANGED <<input, iters, data, render_result, visits>>
    /\ UNCHANGED <<world_vars, library_vars, tool_vars, agent_vars, editor_vars>>

(***************************************************************************)
(* One iteration of the loop of parse_nodes at an open marker: parse_tag.  *)
(***************************************************************************)
ParseTag ==
    /\ pc = "parsing"
    /\ iters < MaxIters
    /\ pos < Len(input)
    /\ ~AtEndTag
    /\ StartsWith(input, pos, OpenMarker)
    /\ LET r == parse_tag(input, pos) IN
       CASE r.kind = "panic" -> Panic
         [] r.kind = "err" -> Fail(r.err)
         [] r.kind = "none" ->
              /\ pos' = r.pos
              /\ UNCHANGED <<stack, pc, result>>
         [] r.kind = "node" ->
              /\ pos' = r.pos
              /\ stack' = PushNode(stack, r.node)
              /\ UNCHANGED <<pc, result>>
         [] r.kind = "block" ->
              /\ pos' = r.pos
              /\ stack' = Append(stack,
                                 Frame(IF r.block = "if" THEN "then" ELSE "each",
                                       r.path, pos, <<>>))
              /\ UNCHANGED <<pc, result>>
    /\ iters' = iters + 1
    /\ UNCHANGED <<input, data, render_result, visits>>
    /\ UNCHANGED <<world_vars, library_vars, tool_vars, agent_vars, editor_vars>>

(***************************************************************************)
(* One iteration of the loop of parse_nodes on raw text: parse_text.       *)
(***************************************************************************)
ParseText ==
    /\ pc = "parsing"
    /\ iters < MaxIters
    /\ pos < Len(input)
    /\ ~AtEndTag
    /\ ~StartsWith(input, pos, OpenMarker)
    /\ LET p == parse_text(input, pos) IN
       IF p = PANIC THEN Panic
       ELSE /\ pos' = p
            /\ stack' = IF Slice(input, pos, p) # <<>>
                        THEN PushNode(stack, Text(Slice(input, pos, p)))
                        ELSE stack
            /\ UNCHANGED <<pc, result>>
    /\ iters' = iters + 1
    /\ UNCHANGED <<input, data, render_result, visits>>
    /\ UNCHANGED <<world_vars, library_vars, tool_vars, agent_vars, editor_vars>>

(***************************************************************************)
(* The names the renderer knows.                                           *)
(***************************************************************************)
K_this == <<"t", "h", "i", "s">>
K_index == <<"@", "i", "n", "d", "e", "x">>
K_title == <<"t", "i", "t", "l", "e">>
K_subtitle == <<"s", "u", "b", "t", "i", "t", "l", "e">>
K_body == <<"b", "o", "d", "y">>
K_style == <<"s", "t", "y", "l", "e">>
K_contact == <<"c", "o", "n", "t", "a", "c", "t">>
K_stats == <<"s", "t", "a", "t", "s">>
K_sections == <<"s", "e", "c", "t", "i", "o", "n", "s">>
K_features == <<"f", "e", "a", "t", "u", "r", "e", "s">>
K_images == <<"i", "m", "a", "g", "e", "s">>
K_length == <<"l", "e", "n", "g", "t", "h">>
K_primaryColor == <<"p", "r", "i", "m", "a", "r", "y", "C", "o", "l", "o", "r">>
K_primary_color == <<"p", "r", "i", "m", "a", "r", "y", "_", "c", "o", "l", "o", "r">>
K_accentColor == <<"a", "c", "c", "e", "n", "t", "C", "o", "l", "o", "r">>
K_accent_color == <<"a", "c", "c", "e", "n", "t", "_", "c", "o", "l", "o", "r">>
K_fontFamily == <<"f", "o", "n", "t", "F", "a", "m", "i", "l", "y">>
K_font_family == <<"f", "o", "n", "t", "_", "f", "a", "m", "i", "l", "y">>
K_email == <<"e", "m", "a", "i", "l">>
K_phone == <<"p", "h", "o", "n", "e">>
K_website == <<"w", "e", "b", "s", "i", "t", "e">>
K_address == <<"a", "d", "d", "r", "e", "s", "s">>
\* keys of the metadata and images maps used by the templates of the model
K_nokey == <<"n", "o", "k", "e", "y">>
K_tag == <<"t", "a", "g">>
K_logo == <<"l", "o", "g", "o">>
K_none == <<"n", "o", "n", "e">>

\* HashMap::get(key).cloned()
MapGet(m, key) == IF key \in DOMAIN m THEN Some(m[key]) ELSE None

\* usize::to_string
Digits == <<"0", "1", "2", "3", "4", "5", "6", "7", "8", "9">>

RECURSIVE usize_to_string(_)
usize_to_string(n) ==
    IF n < 10 THEN <<Digits[n + 1]>>
    ELSE usize_to_string(n \div 10) \o <<Digits[(n % 10) + 1]>>

\* [String]::join(", ")
RECURSIVE JoinComma(_)
JoinComma(xs) ==
    IF xs = <<>> THEN <<>>
    ELSE IF Len(xs) = 1 THEN xs[1]
    ELSE xs[1] \o <<",", " ">> \o JoinComma(Tail(xs))

(***************************************************************************)
(* TemplateEngine::escape_typst                                            *)
(***************************************************************************)
\* escape_typst without the arms of the angle brackets
escape_char_noangle(c) ==
    CASE c = "@" -> <<"\\", "@">>
      [] c = "[" -> <<"\\", "[">>
      [] c = "]" -> <<"\\", "]">>
      [] c = "#" -> <<"\\", "#">>
      [] c = "$" -> <<"\\", "$">>
      [] c = "*" -> <<"\\", "*">>
      [] c = "_" -> <<"\\", "_">>
      [] c = "\\" -> <<"\\", "\\">>
      [] OTHER -> <<c>>

escape_char(c) ==
    CASE c = "@" -> <<"\\", "@">>
      [] c = "<" -> <<"\\", "<">>
      [] c = ">" -> <<"\\", ">">>
      [] c = "[" -> <<"\\", "[">>
      [] c = "]" -> <<"\\", "]">>
      [] c = "#" -> <<"\\", "#">>
      [] c = "$" -> <<"\\", "$">>
      [] c = "*" -> <<"\\", "*">>
      [] c = "_" -> <<"\\", "_">>
      [] c = "\\" -> <<"\\", "\\">>
      [] OTHER -> <<c>>

RECURSIVE escape_typst(_)
escape_typst(s) ==
    IF s = <<>> THEN <<>> ELSE escape_char(Head(s)) \o escape_typst(Tail(s))

(***************************************************************************)
(* Path resolution.  A loop context is the record of the iteration, with   *)
(* its enclosing context as parent; loop_context is an Option of it.       *)
(***************************************************************************)
LoopContext(item, index, parent) == [item |-> item, index |-> index, parent |-> parent]

\* resolve_simple_path looking the key up in the metadata first
resolve_simple_path_metadata_first(key, d) ==
    IF key \in DOMAIN d.metadata THEN Some(d.metadata[key])
    ELSE CASE key = K_title -> Some(d.title)
           [] key = K_subtitle -> d.subtitle
           [] key = K_body -> Some(d.body)
           [] OTHER -> None

resolve_simple_path(key, d) ==
    CASE key = K_title -> Some(d.title)
      [] key = K_subtitle -> d.subtitle
      [] key = K_body -> Some(d.body)
      [] OTHER -> MapGet(d.metadata, key)

resolve_nested_path(path, d) ==
    IF Len(path) < 2 THEN None
    ELSE
    LET first == path[1]
        second == path[2]
    IN
    CASE first = K_style ->
           IF ~d.style.some THEN None
           ELSE CASE second \in {K_primaryColor, K_primary_color} -> d.style.v.primary_color
                  [] second \in {K_accentColor, K_accent_color} -> d.style.v.accent_color
                  [] second \in {K_fontFamily, K_font_family} -> d.style.v.font_family
                  [] OTHER -> None
      [] first = K_contact ->
           IF ~d.contact.some THEN None
           ELSE CASE second = K_email -> d.contact.v.email
                  [] second = K_phone -> d.contact.v.phone
                  [] second = K_website -> d.contact.v.website
                  [] second = K_address -> d.contact.v.address
                  [] OTHER -> None
      [] first = K_stats ->
           IF second = K_length THEN Some(usize_to_string(Len(d.stats))) ELSE None
      [] first = K_sections ->
           IF second = K_length THEN Some(usize_to_string(Len(d.sections))) ELSE None
      [] first = K_features ->
           IF second = K_length THEN Some(usize_to_string(Len(d.features))) ELSE None
      [] first = K_images -> MapGet(d.images, second)
      [] OTHER -> None

resolve_path(path, d, loop_context) ==
    IF path = <<>> THEN None
    ELSE IF path[1] = K_this
         THEN (IF loop_context.some THEN Some(loop_context.v.item) ELSE None)
    ELSE IF path[1] = K_index
         THEN (IF loop_context.some THEN Some(usize_to_string(loop_context.v.index))
               ELSE None)
    ELSE IF Len(path) = 1 THEN resolve_simple_path(path[1], d)
    ELSE resolve_nested_path(path, d)

\* is_path_truthy with the rule of the last arm for every path
is_path_truthy_by_value(path, d, loop_context) ==
    LET v == resolve_path(path, d, loop_context) IN
    v.some /\ v.v # <<>>

is_path_truthy(path, d, loop_context) ==
    IF path = <<>> THEN FALSE
    ELSE
    LET first == path[1] IN
    CASE first = K_sections -> d.sections # <<>>
      [] first = K_features -> d.features # <<>>
      [] first = K_stats -> d.stats # <<>>
      [] first = K_subtitle -> d.subtitle.some /\ d.subtitle.v # <<>>
      [] first = K_contact -> d.contact.some
      [] first = K_style -> d.style.some
      [] first = K_images ->
           IF Len(path) = 1 THEN DOMAIN d.images # {}
           ELSE path[2] \in DOMAIN d.images
      [] OTHER ->
           LET v == resolve_path(path, d, loop_context) IN
           v.some /\ v.v # <<>>

section_to_string(section) ==
    CASE section.section_type = "Text" ->
           section.heading \o <<":", " ">> \o section.content
      [] section.section_type = "List" ->
           section.heading \o <<":", " ", "[">>
             \o (IF section.items.some THEN JoinComma(section.items.v) ELSE <<>>)
             \o <<"]">>
      [] section.section_type = "Table" ->
           section.heading \o <<":", " ", "<", "t", "a", "b", "l", "e", ">">>
      [] section.section_type = "Quote" ->
           section.heading \o <<":", " ", "\"">> \o section.content \o <<"\"">>

\* resolve_array giving the value of a stat without its label
resolve_array_value_only(path, d, loop_context) ==
    IF path = <<>> THEN <<>>
    ELSE
    LET first == path[1] IN
    CASE first = K_features -> d.features
      [] first = K_sections ->
           [i \in 1..Len(d.sections) |-> section_to_string(d.sections[i])]
      [] first = K_stats -> [i \in 1..Len(d.stats) |-> d.stats[i].value]
      [] OTHER -> <<>>

resolve_array(path, d, loop_context) ==
    IF path = <<>> THEN <<>>
    ELSE
    LET first == path[1] IN
    CASE first = K_features -> d.features
      [] first = K_sections ->
           [i \in 1..Len(d.sections) |-> section_to_string(d.sections[i])]
      [] first = K_stats ->
           [i \in 1..Len(d.stats) |-> d.stats[i].value \o <<":", " ">> \o d.stats[i].label]
      [] OTHER -> <<>>

(***************************************************************************)
(* TemplateEngine::render_nodes and render_loop.  The result is the text   *)
(* pushed to `output`, the strings pushed to `errors`, and one record per  *)
(* Variable node that was rendered, in rendering order: the node, the loop  *)
(* context it was rendered in, the resolved value and the text pushed.     *)
(***************************************************************************)
Rendering(out, errors, vs) == [out |-> out, errors |-> errors, visits |-> vs]

Then(a, b) == Rendering(a.out \o b.out, a.errors \o b.errors, a.visits \o b.visits)

\* the Variable arm escaping every value, image references included
render_variable_escape_all(node, d, loop_context) ==
    LET value == resolve_path(node.path, d, loop_context)
        rendered == IF value.some THEN value.v
                    ELSE IF node.default.some THEN node.default.v
                    ELSE <<>>
        pushed == escape_typst(rendered)
    IN Rendering(pushed, <<>>,
                 <<[path |-> node.path, default |-> node.default,
                    context |-> loop_context, value |-> value, pushed |-> pushed]>>)

\* the Variable arm reporting a path that resolves to nothing as an error
render_variable_strict(node, d, loop_context) ==
    LET value == resolve_path(node.path, d, loop_context)
        rendered == IF value.some THEN value.v
                    ELSE IF node.default.some THEN node.default.v
                    ELSE <<>>
        is_image_ref == node.path # <<>> /\ node.path[1] = K_images
        pushed == IF is_image_ref THEN rendered ELSE escape_typst(rendered)
    IN Rendering(pushed,
                 IF value.some \/ node.default.some THEN <<>> ELSE <<"Unresolved variable">>,
                 <<[path |-> node.path, default |-> node.default,
                    context |-> loop_context, value |-> value, pushed |-> pushed]>>)

\* the Variable arm taking the default also for a value that is empty
render_variable_default_on_empty(node, d, loop_context) ==
    LET value == resolve_path(node.path, d, loop_context)
        rendered == IF value.some /\ value.v # <<>> THEN value.v
                    ELSE IF node.default.some THEN node.default.v
                    ELSE <<>>
        is_image_ref == node.path # <<>> /\ node.path[1] = K_images
        pushed == IF is_image_ref THEN rendered ELSE escape_typst(rendered)
    IN Rendering(pushed, <<>>,
                 <<[path |-> node.path, default |-> node.default,
                    context |-> loop_context, value |-> value, pushed |-> pushed]>>)

render_variable(node, d, loop_context) ==
    LET value == resolve_path(node.path, d, loop_context)
        rendered == IF value.some THEN value.v
                    ELSE IF node.default.some THEN node.default.v
                    ELSE <<>>
        is_image_ref == node.path # <<>> /\ node.path[1] = K_images
        pushed == IF is_image_ref THEN rendered ELSE escape_typst(rendered)
    IN Rendering(pushed, <<>>,
                 <<[path |-> node.path, default |-> node.default,
                    context |-> loop_context, value |-> value, pushed |-> pushed]>>)

RECURSIVE render_nodes(_, _, _)
RECURSIVE render_loop_from(_, _, _, _, _)

render_loop(path, body, d, parent_context) ==
    render_loop_from(resolve_array(path, d, parent_context), 1, body, d, parent_context)

\* render_loop counting the iterations from 1
render_loop_from_one_based(items, i, body, d, parent_context) ==
    IF i > Len(items) THEN Rendering(<<>>, <<>>, <<>>)
    ELSE LET context == LoopContext(items[i], i, parent_context) IN
         Then(render_nodes(body, d, Some(context)),
              render_loop_from(items, i + 1, body, d, parent_context))

render_loop_from(items, i, body, d, parent_context) ==
    IF i > Len(items) THEN Rendering(<<>>, <<>>, <<>>)
    ELSE LET context == LoopContext(items[i], i - 1, parent_context) IN
         Then(render_nodes(body, d, Some(context)),
              render_loop_from(items, i + 1, body, d, parent_context))

\* render_nodes rendering the else-branch behind the then-branch of a truthy
\* conditional
render_node_both_branches(node, d, loop_context) ==
    CASE node.type = "Text" -> Rendering(node.text, <<>>, <<>>)
      [] node.type = "Variable" -> render_variable(node, d, loop_context)
      [] node.type = "Conditional" ->
           IF is_path_truthy(node.path, d, loop_context)
           THEN Then(render_nodes(node.then_branch, d, loop_context),
                     render_nodes(node.else_branch, d, loop_context))
           ELSE render_nodes(node.else_branch, d, loop_context)
      [] node.type = "Loop" -> render_loop(node.path, node.body, d, loop_context)

render_node(node, d, loop_context) ==
    CASE node.type = "Text" -> Rendering(node.text, <<>>, <<>>)
      [] node.type = "Variable" -> render_variable(node, d, loop_context)
      [] node.type = "Conditional" ->
           IF is_path_truthy(node.path, d, loop_context)
           THEN render_nodes(node.then_branch, d, loop_context)
           ELSE render_nodes(node.else_branch, d, loop_context)
      [] node.type = "Loop" -> render_loop(node.path, node.body, d, loop_context)

render_nodes(nodes, d, loop_context) ==
    IF nodes = <<>> THEN Rendering(<<>>, <<>>, <<>>)
    ELSE Then(render_node(Head(nodes), d, loop_context),
              render_nodes(Tail(nodes), d, loop_context))

(***************************************************************************)
(* The templates of the model: up to MaxPieces pieces, concatenated.       *)
(***************************************************************************)
P_text == <<"a", "b">>
P_multibyte == <<"C3", "A9">>
P_title == <<"{", "{", "t", "i", "t", "l", "e", "}", "}">>
P_sub_default == <<"{", "{", "s", "u", "b", "t", "i", "t", "l", "e", " ", "|", " ", "d", "e", "f", "a", "u", "l", "t", ":", " ", "'", "<", "x", ">", "'", "}", "}">>
P_img == <<"{", "{", "i", "m", "a", "g", "e", "s", ".", "l", "o", "g", "o", "}", "}">>
P_img_default == <<"{", "{", "i", "m", "a", "g", "e", "s", ".", "n", "o", "n", "e", " ", "|", " ", "d", "e", "f", "a", "u", "l", "t", ":", " ", "'", "#", "_", "'", "}", "}">>
P_images == <<"{", "{", "i", "m", "a", "g", "e", "s", "}", "}">>
P_meta == <<"{", "{", "t", "a", "g", "}", "}">>
P_this == <<"{", "{", "t", "h", "i", "s", "}", "}">>
P_this_x == <<"{", "{", "t", "h", "i", "s", ".", "x", "}", "}">>
P_index == <<"{", "{", "@", "i", "n", "d", "e", "x", "}", "}">>
P_if == <<"{", "{", "#", "i", "f", " ", "s", "u", "b", "t", "i", "t", "l", "e", "}", "}">>
P_else == <<"{", "{", "e", "l", "s", "e", "}", "}">>
P_endif == <<"{", "{", "/", "i", "f", "}", "}">>
P_each == <<"{", "{", "#", "e", "a", "c", "h", " ", "f", "e", "a", "t", "u", "r", "e", "s", "}", "}">>
P_each_stats == <<"{", "{", "#", "e", "a", "c", "h", " ", "s", "t", "a", "t", "s", "}", "}">>
P_endeach == <<"{", "{", "/", "e", "a", "c", "h", "}", "}">>
P_unterminated == <<"{", "{", "t", "i", "t", "l", "e">>
P_nbsp == <<"{", "{", "C2", "A0", "t", "i", "t", "l", "e", "}", "}">>
P_inner == P_each_stats \o P_this \o P_index \o P_endeach
P_tail == P_this_x \o P_index \o P_endeach

\* the tags {{p}}, {{#if p}} and {{#each p}} over a dotted path p
VarTag(p) == OpenMarker \o p \o CloseMarker
IfTag(p) == OpenMarker \o <<"#">> \o S_if \o <<" ">> \o p \o CloseMarker
EachTag(p) == OpenMarker \o <<"#">> \o S_each \o <<" ">> \o p \o CloseMarker
Dot(a, b) == a \o <<".">> \o b

P_item == <<"[">> \o P_this \o P_index \o <<"]">>
P_A_else_B == <<"A">> \o P_else \o <<"B">> \o P_endif

\* markers, broken tags and non-ASCII text, for the parser
ParserPieces ==
    {P_text, P_multibyte, P_title, P_if, P_else, P_endif, P_each, P_endeach,
     P_unterminated, P_nbsp}

\* variable tags over fixed fields, metadata, images and defaults
VariablePieces ==
    {P_text, P_multibyte, P_title, P_sub_default, P_img, P_img_default, P_images,
     P_meta}

\* loops and the loop variables
LoopPieces == {P_each, P_inner, P_tail, P_this, P_index, P_endeach}

\* single-segment variable tags: fixed fields, a metadata key, an unknown key
SimplePieces == {P_title, VarTag(K_subtitle), VarTag(K_body), P_meta, VarTag(K_nokey)}

\* multi-segment variable tags
NestedPieces ==
    {VarTag(Dot(K_style, K_primaryColor)), VarTag(Dot(K_style, K_tag)),
     VarTag(Dot(K_contact, K_email)), VarTag(Dot(Dot(K_contact, K_email), <<"x">>)),
     VarTag(Dot(K_stats, K_length)), VarTag(Dot(K_tag, K_title))}

\* conditionals over the array fields and the subtitle
TruthyPieces ==
    {IfTag(K_sections), IfTag(K_features), IfTag(K_stats), P_if, P_text, P_endif}

\* conditionals over the records and the images map
PresencePieces ==
    {IfTag(K_contact), IfTag(K_style), IfTag(K_images), IfTag(Dot(K_images, K_logo)),
     IfTag(Dot(K_images, K_none)), P_text, P_endif}

\* conditionals over the other paths
FallbackPieces ==
    {IfTag(K_title), IfTag(K_tag), IfTag(Dot(K_contact, K_email)),
     IfTag(Dot(K_style, K_primary_color)), IfTag(Dot(K_stats, K_length)), P_A_else_B}

\* conditionals with both branches; `none` is the text of the else-branch
BranchPieces ==
    {P_if \o VarTag(K_subtitle), IfTag(K_title) \o P_title, P_else \o K_none, P_endif}

\* loops over each array field and over a field that is no array
EachPieces == {P_each, P_each_stats, EachTag(K_sections), EachTag(K_title), P_item, P_endeach}

\* a default clause opening a literal with the quote q
ClauseOpen(q) == <<"|", " ">> \o S_default \o <<" ", q>>

OpenDefault(q) == VarTag(K_title \o <<" ">> \o ClauseOpen(q) \o <<"x">>)

\* default literals that are not closed, and one that is
DefaultPieces ==
    {OpenDefault("'"), OpenDefault("\""),
     VarTag(K_title \o <<" ">> \o ClauseOpen("\"") \o <<"y", "\"">>), P_text}

\* tags whose payload has no path segment, and the closing markers
EmptyPathPieces ==
    {VarTag(<<>>), VarTag(<<".">>), OpenMarker \o <<"#">> \o S_if \o CloseMarker,
     EachTag(<<>>), P_endif, P_endeach}

\* a block opened with a complete block inside it, and what closes it
NestingPieces ==
    {IfTag(K_title) \o IfTag(K_subtitle) \o <<"x">> \o P_endif,
     IfTag(K_title) \o P_each \o P_this \o P_endeach,
     P_each \o IfTag(K_this) \o <<"x">> \o P_else \o <<"w">> \o P_endif,
     P_else \o <<"y">>, P_endif, P_endeach}

PieceGroups ==
    {ParserPieces, VariablePieces, LoopPieces, SimplePieces, NestedPieces,
     TruthyPieces, PresencePieces, FallbackPieces, BranchPieces, EachPieces,
     DefaultPieces, EmptyPathPieces, NestingPieces}

RECURSIVE Concat(_)
Concat(ps) == IF ps = <<>> THEN <<>> ELSE Head(ps) \o Concat(Tail(ps))

PieceLists(G) == UNION {[1..n -> G] : n \in 0..MaxPieces}

Templates == UNION {{Concat(ps) : ps \in PieceLists(G)} : G \in PieceGroups}

(***************************************************************************)
(* The content records of the model.                                       *)
(***************************************************************************)
EmptyMap == [k \in {} |-> <<>>]

NoStyle == [primary_color |-> None, accent_color |-> None, font_family |-> None]
NoContact == [email |-> None, phone |-> None, website |-> None, address |-> None]

TextSection(heading, content) ==
    [heading |-> heading, content |-> content, section_type |-> "Text", items |-> None]
ListSection(heading, items) ==
    [heading |-> heading, content |-> <<>>, section_type |-> "List", items |-> Some(items)]

\* SlickSheetData::default()
DataDefault ==
    [title |-> <<>>, subtitle |-> None, body |-> <<>>, sections |-> <<>>,
     metadata |-> EmptyMap, features |-> <<>>, stats |-> <<>>,
     contact |-> None, style |-> None, images |-> EmptyMap]

DataFull ==
    [title |-> <<"T", "<", "@", ">">>,
     subtitle |-> Some(<<"s", "_", "\\">>),
     body |-> <<"b">>,
     sections |-> <<TextSection(<<"H">>, <<"c">>), ListSection(<<"L">>, <<<<"x">>, <<"y">>>>)>>,
     metadata |-> (<<"t", "a", "g">> :> <<"m", "$", "[", "]">>) @@ (K_this :> <<"q">>)
                    @@ (K_title :> <<"z">>),
     features |-> <<<<"F", "*">>, <<"G">>>>,
     stats |-> <<[value |-> <<"5">>, label |-> <<"#">>]>>,
     contact |-> Some([NoContact EXCEPT !.email = Some(<<"a", "@", "b">>)]),
     style |-> Some([NoStyle EXCEPT !.primary_color = Some(<<"#", "f">>)]),
     images |-> (<<"l", "o", "g", "o">> :> <<"i", "m", "g", "_", "1", "#">>)]

DataEmptyStrings ==
    [DataDefault EXCEPT
       !.subtitle = Some(<<>>),
       !.features = <<<<"A">>>>,
       !.stats = <<[value |-> <<"1">>, label |-> <<"u">>], [value |-> <<"2">>, label |-> <<"v">>]>>,
       !.metadata = (K_images :> <<"*">>) @@ (K_index :> <<"9">>),
       !.images = (<<"n", "o", "n", "e">> :> <<>>)]

\* metadata keys named like the fixed fields and like a dotted path; records
\* for contact and style without their fields
DataShadow ==
    [DataDefault EXCEPT
       !.title = <<"t">>,
       !.metadata = (K_title :> <<"m", "t">>) @@ (K_subtitle :> <<"m", "s">>)
                      @@ (K_body :> <<"m", "b">>)
                      @@ (Dot(K_tag, K_title) :> <<"d">>),
       !.contact = Some([NoContact EXCEPT !.phone = Some(<<"1">>)]),
       !.style = Some(NoStyle)]

DataSet == {DataDefault, DataFull, DataEmptyStrings, DataShadow}

(***************************************************************************)
(* world/mod.rs: the world handed to the compiler.  A world is its main    *)
(* source and its map of files; file identifiers are the normalised paths. *)
(***************************************************************************)
Ok(v) == [kind |-> "ok", v |-> v]
Err(e) == [kind |-> "err", e |-> e]

MainId == "/main.typ"

VirtualWorld_new(source) == [main |-> source, files |-> EmptyMap]

set_source(w, source) == [w EXCEPT !.main = source]

\* add_file keeping the bytes already stored under the identifier
add_file_keep_first(w, path, content) ==
    [w EXCEPT !.files = @ @@ (path :> content)]

add_file(w, path, content) ==
    [w EXCEPT !.files = (path :> content) @@ @]

\* std::str::from_utf8 accepts the bytes: every lead byte of a two-byte
\* character has its continuation byte, and no continuation byte stands alone
RECURSIVE from_utf8_ok(_)
from_utf8_ok(bytes) ==
    IF bytes = <<>> THEN TRUE
    ELSE IF Head(bytes) \in {"C2", "C3"}
         THEN Len(bytes) >= 2 /\ bytes[2] \in Utf8Continuation
              /\ from_utf8_ok(SubSeq(bytes, 3, Len(bytes)))
    ELSE Head(bytes) \notin Utf8Continuation /\ from_utf8_ok(Tail(bytes))

source(w, id) ==
    IF id = MainId THEN Ok(w.main)
    ELSE IF id \notin DOMAIN w.files THEN Err("NotFound")
    ELSE IF ~from_utf8_ok(w.files[id]) THEN Err("InvalidUtf8")
    ELSE Ok(w.files[id])

file(w, id) ==
    IF id \in DOMAIN w.files THEN Ok(w.files[id]) ELSE Err("NotFound")

(***************************************************************************)
(* The link areas of a page: extract_links_from_frame and apply_transform. *)
(* A frame is the sequence of its positioned items; lengths are in points. *)
(***************************************************************************)
Point(x, y) == [x |-> x, y |-> y]

LinkInfo(x, y, width, height, url) ==
    [x |-> x, y |-> y, width |-> width, height |-> height, url |-> url]

\* apply_transform applying the scale of the transform to the point
apply_transform_scaled(point, transform) ==
    Point(point.x * transform.sx + transform.tx, point.y * transform.sy + transform.ty)

apply_transform(point, transform) ==
    Point(point.x + transform.tx, point.y + transform.ty)

RECURSIVE extract_links_from_frame(_, _)

\* extract_links_from_frame without the arm for groups
extract_links_from_frame_flat(frame, offset) ==
    IF frame = <<>> THEN <<>>
    ELSE
    LET item_pos == Head(frame).pos
        item == Head(frame).item
        abs_pos == Point(offset.x + item_pos.x, offset.y + item_pos.y)
        found ==
          IF item.kind = "Link" /\ item.dest.kind = "Url"
          THEN <<LinkInfo(abs_pos.x, abs_pos.y, item.size.x, item.size.y, item.dest.url)>>
          ELSE <<>>
    IN found \o extract_links_from_frame(Tail(frame), offset)

extract_links_from_frame(frame, offset) ==
    IF frame = <<>> THEN <<>>
    ELSE
    LET item_pos == Head(frame).pos
        item == Head(frame).item
        abs_pos == Point(offset.x + item_pos.x, offset.y + item_pos.y)
        found ==
          IF item.kind = "Link" /\ item.dest.kind = "Url"
          THEN <<LinkInfo(abs_pos.x, abs_pos.y, item.size.x, item.size.y, item.dest.url)>>
          ELSE IF item.kind = "Group"
          THEN extract_links_from_frame(item.frame, apply_transform(abs_pos, item.transform))
          ELSE <<>>
    IN found \o extract_links_from_frame(Tail(frame), offset)

(***************************************************************************)
(* add_links_to_svg and escape_xml.                                        *)
(***************************************************************************)
\* str::replace of one character
RECURSIVE replace(_, _, _)
replace(s, c, r) ==
    IF s = <<>> THEN <<>>
    ELSE (IF Head(s) = c THEN r ELSE <<Head(s)>>) \o replace(Tail(s), c, r)

\* escape_xml replacing the ampersand last
escape_xml_ampersand_last(s) ==
    replace(replace(replace(replace(replace(s,
        "<", <<"&", "l", "t", ";">>),
        ">", <<"&", "g", "t", ";">>),
        "\"", <<"&", "q", "u", "o", "t", ";">>),
        "'", <<"&", "a", "p", "o", "s", ";">>),
        "&", <<"&", "a", "m", "p", ";">>)

escape_xml(s) ==
    replace(replace(replace(replace(replace(s,
        "&", <<"&", "a", "m", "p", ";">>),
        "<", <<"&", "l", "t", ";">>),
        ">", <<"&", "g", "t", ";">>),
        "\"", <<"&", "q", "u", "o", "t", ";">>),
        "'", <<"&", "a", "p", "o", "s", ";">>)

\* Display of an f64 holding a whole number
f64_to_string(n) ==
    IF n < 0 THEN <<"-">> \o usize_to_string(0 - n) ELSE usize_to_string(n)

SvgClose == <<"<", "/", "s", "v", "g", ">">>

\* str::rfind: the offset of the last occurrence of pat in s, PANIC for none
rfind(s, pat) ==
    LET at == {i \in 0..(Len(s) - Len(pat)) : SubSeq(s, i + 1, i + Len(pat)) = pat}
    IN IF at = {} THEN PANIC ELSE CHOOSE i \in at : \A j \in at : j <= i

RECURSIVE link_elements(_)
link_elements(links) ==
    IF links = <<>> THEN <<>>
    ELSE LET link == Head(links) IN
         <<"<", "a", " ", "h", "r", "e", "f", "=", "\"">>
           \o escape_xml(link.url)
           \o <<"\"", " ", "t", "a", "r", "g", "e", "t", "=", "\"", "_", "s", "e", "l", "f", "\"", ">", "<", "r", "e", "c", "t", " ", "x", "=", "\"">>
           \o f64_to_string(link.x)
           \o <<"\"", " ", "y", "=", "\"">>
           \o f64_to_string(link.y)
           \o <<"\"", " ", "w", "i", "d", "t", "h", "=", "\"">>
           \o f64_to_string(link.width)
           \o <<"\"", " ", "h", "e", "i", "g", "h", "t", "=", "\"">>
           \o f64_to_string(link.height)
           \o <<"\"", " ", "f", "i", "l", "l", "=", "\"", "t", "r", "a", "n", "s", "p", "a", "r", "e", "n", "t", "\"", " ", "s", "t", "y", "l", "e", "=", "\"", "c", "u", "r", "s", "o", "r", ":", " ", "p", "o", "i", "n", "t", "e", "r", ";", "\"", " ", "/", ">", "<", "/", "a", ">">>
           \o link_elements(Tail(links))

add_links_to_svg(svg, links) ==
    IF links = <<>> THEN svg
    ELSE LET closing_idx == rfind(svg, SvgClose) IN
         IF closing_idx # PANIC
         THEN SubSeq(svg, 1, closing_idx) \o link_elements(links) \o SvgClose
         ELSE svg

(***************************************************************************)
(* compile and compile_to_svg.  The compiler's answer c has the document   *)
(* or the diagnostics as output, and the warnings beside it; the image of  *)
(* a page is its body between the opening and the closing tag.             *)
(***************************************************************************)
typst_svg(page) == <<"<", "s", "v", "g", ">">> \o page.body \o SvgClose

compile(c) == c.output

format_diagnostic(d) ==
    (IF d.severity = "Error" THEN <<"E", "r", "r", "o", "r">>
     ELSE <<"W", "a", "r", "n", "i", "n", "g">>)
      \o <<":", " ">> \o d.message

NoPages == <<"D", "o", "c", "u", "m", "e", "n", "t", " ", "h", "a", "s", " ", "n", "o", " ", "p", "a", "g", "e", "s">>

\* compile_to_svg taking the last page of the document
compile_to_svg_last_page(c) ==
    LET r == compile(c) IN
    IF r.kind = "ok"
    THEN IF r.v.pages # <<>>
         THEN LET page == r.v.pages[Len(r.v.pages)]
                  svg == typst_svg(page)
                  lks == extract_links_from_frame(page.frame, Point(0, 0))
              IN [ret |-> Ok(add_links_to_svg(svg, lks)), page_links |-> lks]
         ELSE [ret |-> Err(<<NoPages>>), page_links |-> <<>>]
    ELSE [ret |-> Err([i \in 1..Len(r.e) |-> format_diagnostic(r.e[i])]),
          page_links |-> <<>>]

\* the result, and the links found on the way
compile_to_svg(c) ==
    LET r == compile(c) IN
    IF r.kind = "ok"
    THEN IF r.v.pages # <<>>
         THEN LET page == Head(r.v.pages)
                  svg == typst_svg(page)
                  lks == extract_links_from_frame(page.frame, Point(0, 0))
              IN [ret |-> Ok(add_links_to_svg(svg, lks)), page_links |-> lks]
         ELSE [ret |-> Err(<<NoPages>>), page_links |-> <<>>]
    ELSE [ret |-> Err([i \in 1..Len(r.e) |-> format_diagnostic(r.e[i])]),
          page_links |-> <<>>]

(***************************************************************************)
(* LIBRARY: the cell is incomplete, running its initialiser, or complete   *)
(* with the library.  OnceLock::get_or_init lets a caller run the          *)
(* initialiser only while the cell is incomplete; callers that find it     *)
(* running wait.                                                           *)
(***************************************************************************)
\* a cell that lets every caller finding it not yet complete initialise it
may_initialize_unguarded(cell) == cell.state # "complete"

may_initialize(cell) == cell.state = "incomplete"

(***************************************************************************)
(* The worlds, documents and threads of the model.                         *)
(***************************************************************************)
Texts == {<<"s">>, <<"t">>}
Paths == {MainId, "/a.png"}
Contents == {<<"a">>, <<"C3", "A9">>, <<"A9">>}

Translate(tx, ty, scale) ==
    [sx |-> scale, ky |-> 0, kx |-> 0, sy |-> scale, tx |-> tx, ty |-> ty]

At(x, y, item) == [pos |-> Point(x, y), item |-> item]

UrlLink(url, w, h) ==
    [kind |-> "Link", dest |-> [kind |-> "Url", url |-> url], size |-> Point(w, h)]

Group(frame, transform) == [kind |-> "Group", frame |-> frame, transform |-> transform]

\* links to a URL and to a position of the document, an item that is no
\* link, and groups of them, one nested in another
FrameItems ==
    LET text == [kind |-> "Text"]
        internal == [kind |-> "Link", dest |-> [kind |-> "Position"], size |-> Point(2, 2)]
        u == UrlLink(<<"a", "&", "b">>, 3, 4)
        v == UrlLink(<<"c", "<", "'", "\"", ">">>, 1, 1)
        inner == {<<At(1, 1, v)>>,
                  <<At(7, 7, text), At(2, 0, u)>>,
                  <<At(100, 0, Group(<<At(1, 1, v)>>, Translate(10, 20, 2)))>>}
    IN {At(1, 2, u), At(0, 0, v), At(5, 5, internal), At(7, 7, text)}
         \cup {At(30, 40, Group(f, t)) :
                 f \in inner, t \in {Translate(0, 0, 1), Translate(10, 20, 2)}}

Frames == UNION {[1..n -> FrameItems] : n \in 0..MaxItems}

\* no page; or a first page and up to MaxPages - 1 pages behind it
Documents ==
    LET later == [body |-> <<"2">>, frame |-> <<At(9, 9, UrlLink(<<"z">>, 1, 1))>>]
    IN {<<>>} \cup
       {<<[body |-> <<"1">>, frame |-> f]>> \o [i \in 1..n |-> later] :
          f \in Frames, n \in 0..(MaxPages - 1)}

Diagnostics ==
    LET ds == {[severity |-> "Error", message |-> <<"m">>],
               [severity |-> "Warning", message |-> <<"w", "!">>]}
    IN UNION {[1..n -> ds] : n \in 1..2}

CompileOutcomes ==
    {[output |-> Ok([pages |-> d]), warnings |-> w] :
       d \in Documents, w \in {<<>>, <<[severity |-> "Warning", message |-> <<"w", "!">>]>>}}
      \cup {[output |-> Err(ds), warnings |-> <<>>] : ds \in Diagnostics}

Threads == 1..MaxThreads

(***************************************************************************)
(* TemplateEngine::render after parse_template: the parsed nodes are       *)
(* rendered against the content record, or the parse error becomes the     *)
(* only element of the error list.                                         *)
(***************************************************************************)
\* parse_template was called by render, not by validate_template
RenderCalled == tool_pc \in {"idle", "render"}

\* the content record that the caller of render passes
RenderData ==
    IF tool_pc = "render" THEN {tool.data}
    ELSE IF editor_pc = "render" THEN {editor.content_data}
    ELSE DataSet

Render ==
    /\ pc = "parsed"
    /\ RenderCalled
    /\ \E d \in RenderData :
         LET r == render_nodes(result.nodes, d, None) IN
         /\ data' = d
         /\ render_result' = IF r.errors = <<>>
                        THEN [kind |-> "ok", text |-> r.out]
                        ELSE [kind |-> "err", errors |-> r.errors]
         /\ visits' = r.visits
    /\ pc' = "rendered"
    /\ UNCHANGED <<input, pos, stack, result, iters>>
    /\ UNCHANGED <<world_vars, library_vars, tool_vars, agent_vars, editor_vars>>

RenderParseError ==
    /\ pc = "failed"
    /\ RenderCalled
    /\ render_result' = [kind |-> "err", errors |-> <<to_string(result.err)>>]
    /\ pc' = "render_failed"
    /\ UNCHANGED <<input, pos, stack, result, iters, data, visits>>
    /\ UNCHANGED <<world_vars, library_vars, tool_vars, agent_vars, editor_vars>>

NoData == [none |-> TRUE]

(***************************************************************************)
(* The states in which a part of the program has not been started.         *)
(***************************************************************************)
WorldIdle ==
    /\ world = VirtualWorld_new(<<>>)
    /\ calls = <<>>
    /\ world_result = [call |-> "none"]
    /\ compiled = [output |-> [kind |-> "none"], warnings |-> <<>>]
    /\ page_links = <<>>

LibraryIdle ==
    /\ LIBRARY = [state |-> "incomplete", value |-> None]
    /\ threads = [t \in Threads |-> [pc |-> "idle", calls |-> 0, lib |-> None]]
    /\ constructed = 0

ToolIdle ==
    /\ tool = [kind |-> "none"]
    /\ tool_pc = "idle"
    /\ tool_result = [kind |-> "none"]
    /\ tool_log = <<>>
    /\ used_vars = {}

\* AgentState::new()
AgentState_new ==
    [iteration |-> 0, history |-> <<>>, last_error |-> None, last_svg |-> None,
     last_code |-> None]

AgentIdle ==
    /\ agent = [max_iterations |-> 0]
    /\ state = AgentState_new
    /\ agent_pc = "idle"
    /\ chats = <<>>
    /\ compiles = <<>>
    /\ agent_result = [kind |-> "none"]

EditorIdle ==
    /\ editor = [created |-> FALSE]
    /\ editor_pc = "idle"
    /\ editor_ret = [call |-> "none"]

\* parse_template: Parser::new(input) and the call parse_nodes(&[])
Init ==
    /\ input \in Templates
    /\ pos = 0
    /\ stack = <<Frame("top", <<>>, 0, <<>>)>>
    /\ pc = "parsing"
    /\ result = [kind |-> "none"]
    /\ iters = 0
    /\ data = NoData
    /\ render_result = [kind |-> "none"]
    /\ visits = <<>>
    /\ WorldIdle
    /\ LibraryIdle
    /\ ToolIdle
    /\ AgentIdle
    /\ EditorIdle

Next ==
    \/ ParseNodesReturn
    \/ ParseTag
    \/ ParseText
    \/ Render
    \/ RenderParseError

Spec == Init /\ [][Next]_vars

TemplateIdle ==
    /\ input = <<>>
    /\ pos = 0
    /\ stack = <<>>
    /\ pc = "idle"
    /\ result = [kind |-> "none"]
    /\ iters = 0
    /\ data = NoData
    /\ render_result = [kind |-> "none"]
    /\ visits = <<>>

(***************************************************************************)
(* The operations of a world: set_source, add_file, and the resolution of  *)
(* identifiers by World::source and World::file.  `calls` is the record of *)
(* the constructor and the modifying calls made so far.                    *)
(***************************************************************************)
SetSource ==
    /\ Len(calls) < MaxOps
    /\ \E t \in Texts :
         /\ world' = set_source(world, t)
         /\ calls' = Append(calls, [op |-> "set_source", source |-> t])
    /\ world_result' = [call |-> "none"]
    /\ UNCHANGED <<compiled, page_links>>
    /\ UNCHANGED <<template_vars, library_vars, tool_vars, agent_vars, editor_vars>>

AddFile ==
    /\ Len(calls) < MaxOps
    /\ \E p \in Paths, c \in Contents :
         /\ world' = add_file(world, p, c)
         /\ calls' = Append(calls, [op |-> "add_file", path |-> p, content |-> c])
    /\ world_result' = [call |-> "none"]
    /\ UNCHANGED <<compiled, page_links>>
    /\ UNCHANGED <<template_vars, library_vars, tool_vars, agent_vars, editor_vars>>

WorldSource ==
    /\ \E id \in Paths \cup {"/none.typ"} :
         world_result' = [call |-> "source", id |-> id, ret |-> source(world, id)]
    /\ UNCHANGED <<world, calls, compiled, page_links>>
    /\ UNCHANGED <<template_vars, library_vars, tool_vars, agent_vars, editor_vars>>

WorldFile ==
    /\ \E id \in Paths \cup {"/none.typ"} :
         world_result' = [call |-> "file", id |-> id, ret |-> file(world, id)]
    /\ UNCHANGED <<world, calls, compiled, page_links>>
    /\ UNCHANGED <<template_vars, library_vars, tool_vars, agent_vars, editor_vars>>

(***************************************************************************)
(* compile_to_svg on a world whose sources make the compiler answer        *)
(* `compiled`.                                                             *)
(***************************************************************************)
CompileToSvg ==
    /\ compiled.output.kind # "none"
    /\ LET r == compile_to_svg(compiled) IN
       /\ world_result' = [call |-> "compile_to_svg", ret |-> r.ret]
       /\ page_links' = r.page_links
    /\ UNCHANGED <<world, calls, compiled>>
    /\ UNCHANGED <<template_vars, library_vars, tool_vars, agent_vars, editor_vars>>

(***************************************************************************)
(* library(): a thread enters LIBRARY.get_or_init and either finds the     *)
(* library, or may run the initialiser, or waits; the initialiser builds   *)
(* Library::default() and the cell completes with it.                      *)
(***************************************************************************)
LibraryCall ==
    \E t \in Threads :
      /\ threads[t].pc = "idle"
      /\ threads[t].calls < MaxCalls
      /\ IF LIBRARY.state = "complete"
         THEN /\ threads' = [threads EXCEPT ![t].lib = LIBRARY.value,
                                            ![t].calls = @ + 1]
              /\ UNCHANGED LIBRARY
         ELSE IF may_initialize(LIBRARY)
         THEN /\ LIBRARY' = [LIBRARY EXCEPT !.state = "running"]
              /\ threads' = [threads EXCEPT ![t].pc = "initializing"]
         ELSE /\ threads' = [threads EXCEPT ![t].pc = "waiting"]
              /\ UNCHANGED LIBRARY
      /\ UNCHANGED constructed
      /\ UNCHANGED <<template_vars, world_vars, tool_vars, agent_vars, editor_vars>>

\* a caller that waited is released once the cell is complete
LibraryWake ==
    \E t \in Threads :
      /\ threads[t].pc = "waiting"
      /\ LIBRARY.state = "complete"
      /\ threads' = [threads EXCEPT ![t].pc = "idle",
                                    ![t].lib = LIBRARY.value,
                                    ![t].calls = @ + 1]
      /\ UNCHANGED <<LIBRARY, constructed>>
      /\ UNCHANGED <<template_vars, world_vars, tool_vars, agent_vars, editor_vars>>

LibraryInit ==
    \E t \in Threads :
      /\ threads[t].pc = "initializing"
      /\ LET library == [id |-> constructed + 1] IN
         /\ constructed' = constructed + 1
         /\ LIBRARY' = [state |-> "complete", value |-> Some(library)]
         /\ threads' = [threads EXCEPT ![t].pc = "idle",
                                       ![t].lib = Some(library),
                                       ![t].calls = @ + 1]
      /\ UNCHANGED <<template_vars, world_vars, tool_vars, agent_vars, editor_vars>>

\* VirtualWorld::new(source)
InitWorld ==
    /\ TemplateIdle
    /\ LibraryIdle
    /\ ToolIdle
    /\ AgentIdle
    /\ EditorIdle
    /\ \E t \in Texts :
         /\ world = VirtualWorld_new(t)
         /\ calls = <<[op |-> "new", source |-> t]>>
    /\ world_result = [call |-> "none"]
    /\ compiled = [output |-> [kind |-> "none"], warnings |-> <<>>]
    /\ page_links = <<>>

NextWorld ==
    \/ SetSource
    \/ AddFile
    \/ WorldSource
    \/ WorldFile

SpecWorld == InitWorld /\ [][NextWorld]_vars

InitCompile ==
    /\ TemplateIdle
    /\ LibraryIdle
    /\ ToolIdle
    /\ AgentIdle
    /\ EditorIdle
    /\ world = VirtualWorld_new(<<>>)
    /\ calls = <<>>
    /\ world_result = [call |-> "none"]
    /\ compiled \in CompileOutcomes
    /\ page_links = <<>>

NextCompile == CompileToSvg

SpecCompile == InitCompile /\ [][NextCompile]_vars

InitLibrary ==
    /\ TemplateIdle
    /\ WorldIdle
    /\ LibraryIdle
    /\ ToolIdle
    /\ AgentIdle
    /\ EditorIdle

NextLibrary ==
    \/ LibraryCall
    \/ LibraryInit
    \/ LibraryWake

SpecLibrary == InitLibrary /\ [][NextLibrary]_vars

(***************************************************************************)
(* validate_schema and is_valid_hex_color (data/validation.rs).  The       *)
(* records of the model have text and list sections and stats without a    *)
(* color.                                                                  *)
(***************************************************************************)
HexDigits == {"0", "1", "2", "3", "4", "5", "6", "7", "8", "9",
              "a", "b", "c", "d", "e", "f", "A", "B", "C", "D", "E", "F"}

is_valid_hex_color(color) ==
    IF ~StartsWith(color, 0, <<"#">>) THEN FALSE
    ELSE LET hex_part == Slice(color, 1, Len(color))
             valid_length == Len(hex_part) = 3 \/ Len(hex_part) = 6
             all_hex == \A i \in 1..Len(hex_part) : hex_part[i] \in HexDigits
         IN valid_length /\ all_hex

RECURSIVE section_errors(_, _)
section_errors(sections, i) ==
    IF i > Len(sections) THEN <<>>
    ELSE LET section == sections[i] IN
         (IF Trim(section.heading) = <<>>
          THEN <<[type |-> "EmptySectionHeading", index |-> i - 1]>> ELSE <<>>)
         \o (IF section.section_type = "List"
                  /\ (section.items = None \/ section.items.v = <<>>)
             THEN <<[type |-> "EmptyListItems", heading |-> section.heading]>> ELSE <<>>)
         \o section_errors(sections, i + 1)

RECURSIVE stat_errors(_, _)
stat_errors(stats, i) ==
    IF i > Len(stats) THEN <<>>
    ELSE (IF Trim(stats[i].value) = <<>>
          THEN <<[type |-> "EmptyStatValue", index |-> i - 1]>> ELSE <<>>)
         \o (IF Trim(stats[i].label) = <<>>
             THEN <<[type |-> "EmptyStatLabel", index |-> i - 1]>> ELSE <<>>)
         \o stat_errors(stats, i + 1)

color_errors(color) ==
    IF color # None /\ ~is_valid_hex_color(color.v)
    THEN <<[type |-> "InvalidColorFormat", color |-> color.v]>> ELSE <<>>

validate_schema(d) ==
    LET errors ==
          (IF Trim(d.title) = <<>> THEN <<[type |-> "EmptyTitle"]>> ELSE <<>>)
          \o section_errors(d.sections, 1)
          \o stat_errors(d.stats, 1)
          \o (IF d.style # None
              THEN color_errors(d.style.v.primary_color) \o color_errors(d.style.v.accent_color)
              ELSE <<>>)
    IN IF errors = <<>> THEN Ok(<<>>) ELSE Err(errors)

(***************************************************************************)
(* extract_variables / collect_variables (template/parser.rs) and          *)
(* validate_template (template/validation.rs).                             *)
(***************************************************************************)
\* [String]::join(".")
RECURSIVE join_dot(_)
join_dot(path) ==
    IF path = <<>> THEN <<>>
    ELSE IF Len(path) = 1 THEN path[1]
    ELSE path[1] \o <<".">> \o join_dot(Tail(path))

\* collect_variables leaving out the else-branches
RECURSIVE collect_variables_then_only(_)
collect_variables_then_only(nodes) ==
    IF nodes = <<>> THEN {}
    ELSE LET node == Head(nodes)
             here == CASE node.type = "Variable" -> {join_dot(node.path)}
                       [] node.type = "Conditional" ->
                            {join_dot(node.path)}
                              \cup collect_variables_then_only(node.then_branch)
                       [] node.type = "Loop" ->
                            {join_dot(node.path)} \cup collect_variables_then_only(node.body)
                       [] OTHER -> {}
         IN here \cup collect_variables_then_only(Tail(nodes))

\* the set that collect_variables adds to vars
RECURSIVE collect_variables(_)
collect_variables(nodes) ==
    IF nodes = <<>> THEN {}
    ELSE LET node == Head(nodes)
             here == CASE node.type = "Variable" -> {join_dot(node.path)}
                       [] node.type = "Conditional" ->
                            {join_dot(node.path)}
                              \cup collect_variables(node.then_branch)
                              \cup collect_variables(node.else_branch)
                       [] node.type = "Loop" ->
                            {join_dot(node.path)} \cup collect_variables(node.body)
                       [] OTHER -> {}
         IN here \cup collect_variables(Tail(nodes))

extract_variables(nodes) == collect_variables(nodes)

(***************************************************************************)
(* WriteJsonTool::execute and WriteTemplateTool::execute (ai/tools).       *)
(* `tool` holds the arguments and the locals of the call, tool_log the     *)
(* stages entered and the calls of compile_fn with their answers.          *)
(***************************************************************************)
ToolError(fmt, a) == Err([fmt |-> fmt, a |-> a])

\* serde_json::from_str::<SlickSheetData>: the answer belongs to the text
from_str(json) == json.parse

\* steps 1 and 2 of WriteJsonTool::execute
parse_and_validate(new_json) ==
    LET parsed == from_str(new_json) IN
    IF parsed.kind = "err"
    THEN [ret |-> ToolError("JSON parse error: {}", <<parsed.e>>),
          stages |-> <<[stage |-> "from_str"]>>]
    ELSE LET checked == validate_schema(parsed.v) IN
         IF checked.kind = "err"
         THEN [ret |-> ToolError("Validation errors:\n{}", checked.e),
               stages |-> <<[stage |-> "from_str"], [stage |-> "validate_schema"]>>]
         ELSE [ret |-> Ok(parsed.v),
               stages |-> <<[stage |-> "from_str"], [stage |-> "validate_schema"]>>]

\* the last two steps accepting what the compiler refuses
test_compilation_ignoring_compiler(rendered, answer, accepted) ==
    IF rendered.kind = "err"
    THEN [ret |-> ToolError("Template rendering failed:\n{}", rendered.errors),
          compiled |-> <<>>]
    ELSE [ret |-> Ok(accepted), compiled |-> <<rendered.text>>]

\* the last two steps of execute: the rendering of the template is tested,
\* then compile_fn is called with it and answers `answer`
test_compilation(rendered, answer, accepted) ==
    IF rendered.kind = "err"
    THEN [ret |-> ToolError("Template rendering failed:\n{}", rendered.errors),
          compiled |-> <<>>]
    ELSE [ret |-> IF answer.kind = "err"
                  THEN ToolError("Typst compilation failed:\n{}", answer.e)
                  ELSE Ok(accepted),
          compiled |-> <<rendered.text>>]

\* a call of parse_template
StartParse(template) ==
    /\ input' = template
    /\ pos' = 0
    /\ stack' = <<Frame("top", <<>>, 0, <<>>)>>
    /\ pc' = "parsing"
    /\ result' = [kind |-> "none"]
    /\ iters' = 0
    /\ data' = NoData
    /\ render_result' = [kind |-> "none"]
    /\ visits' = <<>>

DataValid ==
    [DataFull EXCEPT !.style = Some([NoStyle EXCEPT !.primary_color = Some(<<"#", "0", "a", "F">>)])]

ToolJsons ==
    {[text |-> "not json", parse |-> Err("expected ident at line 1 column 2")]}
      \cup {[text |-> "data", parse |-> Ok(d)] :
              d \in {DataDefault, DataFull, DataShadow, DataValid}}

ToolTemplates ==
    {<<>>, <<" ", "\n">>, VarTag(K_title), P_multibyte,
     IfTag(K_subtitle) \o <<"o", "p", "e", "n">>,
     IfTag(K_title) \o VarTag(K_body) \o P_else
       \o P_each_stats \o VarTag(Dot(K_this, K_nokey)) \o P_endeach \o P_endif \o P_text}

CompileAnswers == {Ok(<<"<", "s", "v", "g", ">">>), Err(<<<<"e", "1">>, <<"e", "2">>>>)}

WriteJsonExecute ==
    /\ tool_pc = "called"
    /\ tool.kind = "write_json"
    /\ LET r == parse_and_validate(tool.new_json) IN
       IF r.ret.kind = "err"
       THEN /\ tool_result' = r.ret
            /\ tool_pc' = "returned"
            /\ tool_log' = r.stages
            /\ UNCHANGED <<tool, template_vars>>
       ELSE /\ tool' = [tool EXCEPT !.data = r.ret.v]
            /\ tool_pc' = "render"
            /\ tool_log' = Append(r.stages, [stage |-> "render"])
            /\ StartParse(tool.current_template)
            /\ UNCHANGED tool_result
    /\ UNCHANGED used_vars
    /\ UNCHANGED <<world_vars, library_vars, agent_vars, editor_vars>>

\* validate_template up to its call of parse_template
WriteTemplateExecute ==
    /\ tool_pc = "called"
    /\ tool.kind = "write_template"
    /\ tool_log' = <<[stage |-> "validate_template"]>>
    /\ IF Trim(tool.new_template) = <<>>
       THEN /\ tool_result' = ToolError("Template syntax errors:\n{}",
                                        <<[type |-> "EmptyTemplate"]>>)
            /\ tool_pc' = "returned"
            /\ UNCHANGED template_vars
       ELSE /\ tool_pc' = "validate_template"
            /\ StartParse(tool.new_template)
            /\ UNCHANGED tool_result
    /\ UNCHANGED <<tool, used_vars>>
    /\ UNCHANGED <<world_vars, library_vars, agent_vars, editor_vars>>

\* validate_template after parse_template
ValidateTemplateReturn ==
    /\ tool_pc = "validate_template"
    /\ pc \in {"parsed", "failed"}
    /\ IF pc = "failed"
       THEN /\ tool_result' = ToolError("Template syntax errors:\n{}",
                                        <<[type |-> "ParseError", e |-> to_string(result.err)]>>)
            /\ tool_pc' = "returned"
            /\ UNCHANGED <<tool_log, used_vars, template_vars>>
       ELSE /\ used_vars' = extract_variables(result.nodes)
            /\ tool_pc' = "validated"
            /\ UNCHANGED <<tool_result, tool_log, template_vars>>
    /\ UNCHANGED tool
    /\ UNCHANGED <<world_vars, library_vars, agent_vars, editor_vars>>

\* execute after validate_template returned Ok: the call of render
WriteTemplateRender ==
    /\ tool_pc = "validated"
    /\ tool_pc' = "render"
    /\ tool_log' = Append(tool_log, [stage |-> "render"])
    /\ StartParse(tool.new_template)
    /\ UNCHANGED <<tool, tool_result, used_vars>>
    /\ UNCHANGED <<world_vars, library_vars, agent_vars, editor_vars>>

\* execute after TemplateEngine::render
ToolTestCompilation ==
    /\ tool_pc = "render"
    /\ pc \in {"rendered", "render_failed"}
    /\ \E answer \in CompileAnswers :
         LET accepted == IF tool.kind = "write_json" THEN tool.data ELSE tool.new_template
             r == test_compilation(render_result, answer, accepted)
         IN /\ tool_result' = r.ret
            /\ tool_log' = tool_log \o [i \in 1..Len(r.compiled) |->
                                          [stage |-> "compile_fn", arg |-> r.compiled[i],
                                           answer |-> answer]]
    /\ tool_pc' = "returned"
    /\ UNCHANGED <<tool, used_vars, template_vars>>
    /\ UNCHANGED <<world_vars, library_vars, agent_vars, editor_vars>>

InitTools ==
    /\ TemplateIdle
    /\ WorldIdle
    /\ LibraryIdle
    /\ AgentIdle
    /\ EditorIdle
    /\ tool \in {[kind |-> "write_json", new_json |-> j, current_template |-> t, data |-> NoData] :
                   j \in ToolJsons, t \in ToolTemplates}
           \cup {[kind |-> "write_template", new_template |-> t, data |-> d] :
                   t \in ToolTemplates, d \in {DataShadow, DataValid}}
    /\ tool_pc = "called"
    /\ tool_result = [kind |-> "none"]
    /\ tool_log = <<>>
    /\ used_vars = {}

NextTools ==
    \/ WriteJsonExecute
    \/ WriteTemplateExecute
    \/ ValidateTemplateReturn
    \/ WriteTemplateRender
    \/ ToolTestCompilation
    \/ ParseNodesReturn
    \/ ParseTag
    \/ ParseText
    \/ Render
    \/ RenderParseError

SpecTools == InitTools /\ [][NextTools]_vars

(***************************************************************************)
(* verify_change (ai/verify.rs), the prompts (ai/prompts.rs) and           *)
(* clean_code (ai/agent.rs).                                               *)
(***************************************************************************)
SvgTag == <<"<", "s", "v", "g">>

contains(s, pat) == \E i \in 0..Len(s) : StartsWith(s, i, pat)

NeedsRetry(reason, suggestion) ==
    [kind |-> "NeedsRetry", reason |-> reason, suggestion |-> suggestion]

verify_change(request, svg_output, compilation_error) ==
    IF compilation_error # None THEN [kind |-> "Failed", error |-> compilation_error.v]
    ELSE IF svg_output = None
    THEN NeedsRetry("No output generated", "Ensure the code produces visible content")
    ELSE IF svg_output.v = <<>>
    THEN NeedsRetry("Empty SVG output", "Add visible content to the document")
    ELSE IF contains(svg_output.v, SvgTag) /\ Len(svg_output.v) > 100
    THEN [kind |-> "Success", confidence |-> "0.8", message |-> "Output generated successfully"]
    ELSE NeedsRetry("SVG output appears incomplete",
                    "Check that all content is properly formatted")

\* the code fence of three grave accents, each written as its byte 60
Fence == <<"60", "60", "60">>

generate_user_prompt(request, current_code) ==
    IF current_code # None
    THEN [fmt |-> <<"Current Typst code:\n", Fence, "\n{}\n", Fence, "\n\nRequest: {}">>,
          a |-> <<current_code.v, request>>]
    ELSE [fmt |-> <<"Request: {}">>, a |-> <<request>>]

generate_error_recovery_prompt(code, error) ==
    [fmt |-> <<"The following Typst code has an error:\n\n", Fence, "\n{}\n", Fence,
               "\n\nError message: {}\n\nPlease fix the code.">>,
     a |-> <<code, error>>]

FenceTyp == Fence \o <<"t", "y", "p">>
FenceTypst == Fence \o <<"t", "y", "p", "s", "t">>

strip_prefix(s, prefix) ==
    IF StartsWith(s, 0, prefix) THEN Some(Slice(s, Len(prefix), Len(s))) ELSE None

strip_suffix(s, suffix) ==
    IF Len(s) >= Len(suffix) /\ StartsWith(s, Len(s) - Len(suffix), suffix)
    THEN Some(Slice(s, 0, Len(s) - Len(suffix))) ELSE None

clean_code(code) ==
    LET trimmed == Trim(code)
        a == strip_prefix(trimmed, FenceTypst)
        b == IF a # None THEN a ELSE strip_prefix(trimmed, FenceTyp)
        c == IF b # None THEN b ELSE strip_prefix(trimmed, Fence)
        opened == IF c # None THEN c.v ELSE trimmed
        d == strip_suffix(opened, Fence)
        closed == IF d # None THEN d.v ELSE opened
    IN Trim(closed)

(***************************************************************************)
(* AgentState and AgentLoop::run.  `chats` holds the messages of every     *)
(* call of the language model with its reply, `compiles` the calls of      *)
(* compile_fn with their answers.                                          *)
(***************************************************************************)
\* should_continue letting the counter reach max_iterations + 1
should_continue_inclusive(st, config) == st.iteration <= config.max_iterations

should_continue(st, config) == st.iteration < config.max_iterations

increment_iteration(st) == [st EXCEPT !.iteration = @ + 1]

add_to_history(st, code) == [st EXCEPT !.history = Append(@, code)]

\* the prompts of an attempt always being those of the normal generation
prompts_generation_only(st, request, current_code) ==
    [system |-> "TYPST_GENERATION_SYSTEM",
     user |-> generate_user_prompt(request, current_code)]

\* the system prompt and the user prompt of an attempt
prompts(st, request, current_code) ==
    IF st.last_error # None
    THEN LET code == IF st.last_code # None THEN st.last_code.v ELSE <<>> IN
         [system |-> "ERROR_RECOVERY_SYSTEM",
          user |-> generate_error_recovery_prompt(code, st.last_error.v)]
    ELSE [system |-> "TYPST_GENERATION_SYSTEM",
          user |-> generate_user_prompt(request, current_code)]

\* run from the reply of the model to the end of the loop body: compile_fn
\* answers `answer`; the state, and the result if run returns here
attempt(st, request, generated_code, answer) ==
    LET cleaned_code == clean_code(generated_code)
        stored == add_to_history([st EXCEPT !.last_code = Some(cleaned_code)], cleaned_code)
    IN IF answer.kind = "ok"
       THEN LET svg == answer.v
                compiled_state == [stored EXCEPT !.last_svg = Some(svg), !.last_error = None]
                verification == verify_change(request, Some(svg), None)
            IN CASE verification.kind = "Success" ->
                      [state |-> compiled_state,
                       ret |-> Some([kind |-> "Success", code |-> cleaned_code, svg |-> svg,
                                     iterations |-> compiled_state.iteration])]
                 [] verification.kind = "NeedsRetry" ->
                      [state |-> [compiled_state EXCEPT
                                    !.last_error =
                                       Some(<<"Verification failed: {}", verification.reason>>)],
                       ret |-> None]
                 [] OTHER ->
                      [state |-> [compiled_state EXCEPT !.last_error = Some(verification.error)],
                       ret |-> None]
       ELSE [state |-> [stored EXCEPT !.last_error = Some(answer.e), !.last_svg = None],
             ret |-> None]

CodeH == <<"=", " ", "H">>
CodeFenced == FenceTypst \o <<"\n", "=", " ", "G", "\n">> \o Fence
CodeOld == <<"=", " ", "o", "l", "d">>

\* the answers of the language model and of compile_fn
Replies == {Ok(CodeH), Ok(CodeFenced), Err("timeout")}

Filled(n) == [i \in 1..n |-> "x"]

AgentCompileAnswers ==
    {Ok(<<>>), Ok(SvgTag \o <<">">>), Ok(SvgTag \o Filled(97)), Ok(Filled(101)),
     Err(<<"{}", "unknown variable">>)}

\* a state left by an earlier run of the same AgentLoop
AgentStateUsed ==
    [iteration |-> 2, history |-> <<CodeOld, CodeOld>>, last_error |-> Some(<<"{}", "old">>),
     last_svg |-> None, last_code |-> Some(CodeOld)]

AgentRun ==
    /\ agent_pc = "called"
    /\ state' = AgentState_new
    /\ agent_pc' = "loop"
    /\ UNCHANGED <<agent, chats, compiles, agent_result>>
    /\ UNCHANGED <<template_vars, world_vars, library_vars, tool_vars, editor_vars>>

\* the head of the loop, up to the call of the model
AgentChat ==
    /\ agent_pc = "loop"
    /\ should_continue(state, agent)
    /\ LET st == increment_iteration(state) IN
       /\ state' = st
       /\ chats' = Append(chats, [messages |-> prompts(st, agent.request, agent.current_code),
                                  reply |-> None])
    /\ agent_pc' = "chat"
    /\ UNCHANGED <<agent, compiles, agent_result>>
    /\ UNCHANGED <<template_vars, world_vars, library_vars, tool_vars, editor_vars>>

AgentMaxIterationsReached ==
    /\ agent_pc = "loop"
    /\ ~should_continue(state, agent)
    /\ agent_result' = [kind |-> "MaxIterationsReached", last_code |-> state.last_code,
                        last_error |-> state.last_error]
    /\ agent_pc' = "returned"
    /\ UNCHANGED <<agent, state, chats, compiles>>
    /\ UNCHANGED <<template_vars, world_vars, library_vars, tool_vars, editor_vars>>

\* the model fails
AgentChatFailed ==
    /\ agent_pc = "chat"
    /\ \E reply \in {r \in Replies : r.kind = "err"} :
         /\ chats' = [chats EXCEPT ![Len(chats)].reply = Some(reply)]
         /\ agent_result' = [kind |-> "Error", message |-> <<"LLM request failed: {}", reply.e>>]
    /\ agent_pc' = "returned"
    /\ UNCHANGED <<agent, state, compiles>>
    /\ UNCHANGED <<template_vars, world_vars, library_vars, tool_vars, editor_vars>>

\* the model replies; the code is cleaned, stored, compiled and verified
AgentAttempt ==
    /\ agent_pc = "chat"
    /\ \E reply \in {r \in Replies : r.kind = "ok"}, answer \in AgentCompileAnswers :
         LET r == attempt(state, agent.request, reply.v, answer) IN
         /\ chats' = [chats EXCEPT ![Len(chats)].reply = Some(reply)]
         /\ compiles' = Append(compiles, [code |-> clean_code(reply.v), answer |-> answer])
         /\ state' = r.state
         /\ IF r.ret # None
            THEN agent_result' = r.ret.v /\ agent_pc' = "returned"
            ELSE agent_pc' = "loop" /\ UNCHANGED agent_result
    /\ UNCHANGED agent
    /\ UNCHANGED <<template_vars, world_vars, library_vars, tool_vars, editor_vars>>

InitAgent ==
    /\ TemplateIdle
    /\ WorldIdle
    /\ LibraryIdle
    /\ ToolIdle
    /\ EditorIdle
    /\ agent \in {[max_iterations |-> n, request |-> "make it blue", current_code |-> c] :
                    n \in 0..MaxIterations, c \in {None, Some(CodeOld)}}
    /\ state \in {AgentState_new, AgentStateUsed}
    /\ agent_pc = "called"
    /\ chats = <<>>
    /\ compiles = <<>>
    /\ agent_result = [kind |-> "none"]

NextAgent ==
    \/ AgentRun
    \/ AgentChat
    \/ AgentMaxIterationsReached
    \/ AgentChatFailed
    \/ AgentAttempt

SpecAgent == InitAgent /\ [][NextAgent]_vars

\* run is driven to its end, and the calls of the model return
SpecAgentFair == SpecAgent /\ WF_vars(NextAgent)

(***************************************************************************)
(* EditorState (editor/state.rs): the signals content_data,                *)
(* template_source, typst_source and error; new, from_template,            *)
(* render_template, set_content_data, set_template_source and set_json.    *)
(***************************************************************************)
\* the constant, reduced to its branch on the logo, its title and its body
DEFAULT_TEMPLATE ==
    IfTag(Dot(K_images, K_logo)) \o VarTag(Dot(K_images, K_logo)) \o P_else \o <<"[", "]">>
      \o P_endif \o <<"[">> \o VarTag(K_title) \o <<"]">>
      \o IfTag(K_body) \o VarTag(K_body) \o P_endif

\* SlickSheetData::new("Hello World").with_body(..)
DataHello ==
    [DataDefault EXCEPT
       !.title = <<"H", "e", "l", "l", "o", " ", "W", "o", "r", "l", "d">>,
       !.body = <<"W", "e", "l", "c", "o", "m", "e", " ", "t", "o", " ", "S", "l", "i", "c", "k", " ", "S", "h", "e", "e", "t", " ", "S", "t", "u", "d", "i", "o", "!">>]

\* default_minimal(): its body cut to the first word, and no sections and
\* contact, which the branches kept of DEFAULT_TEMPLATE do not read
DataMinimal ==
    [DataDefault EXCEPT
       !.title = <<"T", "i", "t", "l", "e", " ", "H", "e", "r", "e">>,
       !.subtitle = Some(<<"S", "u", "b", "t", "i", "t", "l", "e", " ", "o", "r", " ", "t", "a", "g", "l", "i", "n", "e", " ", "g", "o", "e", "s", " ", "h", "e", "r", "e">>),
       !.body = <<"L", "o", "r", "e", "m">>]

RenderErrorComment == <<"/", "/", " ", "T", "e", "m", "p", "l", "a", "t", "e", " ", "r", "e", "n", "d", "e", "r", " ", "e", "r", "r", "o", "r">>

\* render_template leaving the error of an earlier rendering in place
render_template_keeping_error(ed, rendered) ==
    IF rendered.kind = "ok"
    THEN [ed EXCEPT !.typst_source = rendered.text]
    ELSE [ed EXCEPT !.error = Some([fmt |-> "Template rendering error:\n{}",
                                    a |-> rendered.errors])]

\* render_template after TemplateEngine::render returned
render_template(ed, rendered) ==
    IF rendered.kind = "ok"
    THEN [ed EXCEPT !.typst_source = rendered.text, !.error = None]
    ELSE [ed EXCEPT !.error = Some([fmt |-> "Template rendering error:\n{}",
                                    a |-> rendered.errors])]

EditorTemplates ==
    {VarTag(K_title), VarTag(K_body) \o P_text, IfTag(K_subtitle) \o <<"o", "p", "e", "n">>,
     P_multibyte}

EditorData == {DataShadow, DataValid}

EditorJsons ==
    {[text |-> "{", parse |-> Err("EOF while parsing an object at line 1 column 1")],
     [text |-> "data", parse |-> Ok(DataFull)]}

\* new() and from_template() up to the rendering of DEFAULT_TEMPLATE
EditorNew ==
    /\ editor_pc = "start"
    /\ \E ctor \in {"new", "from_template"} :
         editor' = [created |-> FALSE, ctor |-> ctor,
                    content_data |-> IF ctor = "new" THEN DataHello ELSE DataMinimal,
                    template_source |-> DEFAULT_TEMPLATE,
                    typst_source |-> <<>>, error |-> None]
    /\ editor_pc' = "render"
    /\ StartParse(DEFAULT_TEMPLATE)
    /\ UNCHANGED editor_ret
    /\ UNCHANGED <<world_vars, library_vars, tool_vars, agent_vars>>

\* the signals are created: unwrap_or_else on the rendering
EditorCreated ==
    /\ editor_pc = "render"
    /\ ~editor.created
    /\ pc \in {"rendered", "render_failed"}
    /\ editor' = [editor EXCEPT
                    !.created = TRUE,
                    !.typst_source = IF render_result.kind = "ok" THEN render_result.text
                                     ELSE IF editor.ctor = "new" THEN RenderErrorComment
                                     ELSE <<>>]
    /\ editor_pc' = "ready"
    /\ UNCHANGED editor_ret
    /\ UNCHANGED <<template_vars, world_vars, library_vars, tool_vars, agent_vars>>

SetContentData ==
    /\ editor_pc = "ready"
    /\ \E d \in EditorData :
         /\ editor' = [editor EXCEPT !.content_data = d]
         /\ editor_ret' = [call |-> "set_content_data", arg |-> d, ret |-> [kind |-> "none"]]
    /\ editor_pc' = "render"
    /\ StartParse(editor.template_source)
    /\ UNCHANGED <<world_vars, library_vars, tool_vars, agent_vars>>

SetTemplateSource ==
    /\ editor_pc = "ready"
    /\ \E t \in EditorTemplates :
         /\ editor' = [editor EXCEPT !.template_source = t]
         /\ editor_ret' = [call |-> "set_template_source", arg |-> t, ret |-> [kind |-> "none"]]
         /\ StartParse(t)
    /\ editor_pc' = "render"
    /\ UNCHANGED <<world_vars, library_vars, tool_vars, agent_vars>>

SetJson ==
    /\ editor_pc = "ready"
    /\ \E json \in EditorJsons :
         LET parsed == from_str(json) IN
         IF parsed.kind = "err"
         THEN /\ editor_ret' = [call |-> "set_json", arg |-> json,
                                ret |-> Err([fmt |-> "Failed to parse JSON: {}",
                                             a |-> <<parsed.e>>])]
              /\ UNCHANGED <<editor, editor_pc, template_vars>>
         ELSE /\ editor' = [editor EXCEPT !.content_data = parsed.v]
              /\ editor_ret' = [call |-> "set_json", arg |-> json, ret |-> [kind |-> "none"]]
              /\ editor_pc' = "render"
              /\ StartParse(editor.template_source)
    /\ UNCHANGED <<world_vars, library_vars, tool_vars, agent_vars>>

\* render_template after the rendering, and the return of the setter
RenderTemplateReturn ==
    /\ editor_pc = "render"
    /\ editor.created
    /\ pc \in {"rendered", "render_failed"}
    /\ editor' = render_template(editor, render_result)
    /\ editor_ret' = [editor_ret EXCEPT !.ret = Ok(<<>>)]
    /\ editor_pc' = "ready"
    /\ UNCHANGED <<template_vars, world_vars, library_vars, tool_vars, agent_vars>>

InitEditor ==
    /\ TemplateIdle
    /\ WorldIdle
    /\ LibraryIdle
    /\ ToolIdle
    /\ AgentIdle
    /\ editor = [created |-> FALSE]
    /\ editor_pc = "start"
    /\ editor_ret = [call |-> "none"]

NextEditor ==
    \/ EditorNew
    \/ EditorCreated
    \/ SetContentData
    \/ SetTemplateSource
    \/ SetJson
    \/ RenderTemplateReturn
    \/ ParseNodesReturn
    \/ ParseTag
    \/ ParseText
    \/ Render
    \/ RenderParseError

SpecEditor == InitEditor /\ [][NextEditor]_vars

(***************************************************************************)
(* Properties.                                                             *)
(***************************************************************************)
Reserved == {"@", "<", ">", "[", "]", "#", "$", "*", "_", "\\"}

RECURSIVE EscapedForm(_)
EscapedForm(s) ==
    IF s = <<>> THEN <<>>
    ELSE (IF Head(s) \in Reserved THEN <<"\\", Head(s)>> ELSE <<Head(s)>>)
           \o EscapedForm(Tail(s))

HasReserved(s) == \E k \in 1..Len(s) : s[k] \in Reserved

\* every reserved character of s stands behind exactly one escape character
RECURSIVE WellEscaped(_)
WellEscaped(s) ==
    IF s = <<>> THEN TRUE
    ELSE IF Head(s) = "\\"
         THEN Len(s) >= 2 /\ s[2] \in Reserved /\ WellEscaped(SubSeq(s, 3, Len(s)))
    ELSE Head(s) \notin Reserved /\ WellEscaped(Tail(s))

\* the value a Variable node stands for: the resolved one, else the default
ValueOrDefault(v) ==
    IF v.value.some THEN v.value.v
    ELSE IF v.default.some THEN v.default.v
    ELSE <<>>

IsImagePath(path) == path # <<>> /\ path[1] = K_images

\* the template is a list of variable tags only
FlatVariables ==
    /\ result.kind = "ok"
    /\ \A i \in 1..Len(result.nodes) : result.nodes[i].type = "Variable"

\* C1: for every Variable node whose path does not start with `images`, the
\* text appended to the output is the value (resolved, else default, else
\* empty) with each of the ten reserved characters behind one backslash and
\* every other character unchanged and in order; the output of a template of
\* variable tags is these texts one after the other.
C1_Escaping ==
    pc = "rendered" =>
      /\ \A i \in 1..Len(visits) :
           ~IsImagePath(visits[i].path) =>
             visits[i].pushed = EscapedForm(ValueOrDefault(visits[i]))
      /\ FlatVariables =>
           /\ Len(visits) = Len(result.nodes)
           /\ render_result.text = Concat([i \in 1..Len(visits) |-> visits[i].pushed])

C1_Witness ==
    /\ pc = "rendered"
    /\ \E i \in 1..Len(visits) :
         /\ ~IsImagePath(visits[i].path)
         /\ visits[i].value.some
         /\ HasReserved(visits[i].value.v)
         /\ Len(visits[i].pushed) > Len(visits[i].value.v)

\* C2: a Variable node whose path starts with `images` emits its value as it
\* is (the string stored for images.<slot>, the default literal of such a tag,
\* the metadata value of the one-segment path `images`), and a Variable node
\* with any other first segment never emits a reserved character without its
\* escape character, so a value with a reserved character is not emitted as
\* it is.
C2_ImagesVerbatim ==
    pc = "rendered" =>
      \A i \in 1..Len(visits) :
        LET v == visits[i]
            raw == ValueOrDefault(v)
        IN IF IsImagePath(v.path)
           THEN /\ v.pushed = raw
                /\ (Len(v.path) = 2 /\ v.path[2] \in DOMAIN data.images)
                     => v.pushed = data.images[v.path[2]]
                /\ (Len(v.path) = 1 /\ K_images \in DOMAIN data.metadata)
                     => v.pushed = data.metadata[K_images]
           ELSE /\ WellEscaped(v.pushed)
                /\ HasReserved(raw) => v.pushed # raw

C2_Witness ==
    /\ pc = "rendered"
    /\ \E i \in 1..Len(visits) :
         /\ IsImagePath(visits[i].path)
         /\ visits[i].value.some
         /\ HasReserved(visits[i].pushed)

\* C3: render returns an error exactly when parse_template failed, the error
\* list then holds the message of the parse error and nothing else and no
\* node was rendered; a template that parsed renders to Ok whatever paths are
\* unresolved.
C3_RenderErrorIffParseError ==
    /\ pc = "render_failed" =>
         /\ result.kind = "err"
         /\ render_result.kind = "err"
         /\ Len(render_result.errors) = 1
         /\ render_result.errors[1] = to_string(result.err)
         /\ visits = <<>>
    /\ pc = "rendered" => result.kind = "ok" /\ render_result.kind = "ok"
    /\ render_result.kind = "err" => result.kind = "err"
    /\ render_result.kind = "ok" => result.kind = "ok"

C3_Witness ==
    /\ pc = "rendered"
    /\ render_result.kind = "ok"
    /\ \E i \in 1..Len(visits) : ~visits[i].value.some /\ ~visits[i].default.some

OpenIfTag == <<"{", "{", "#", "i", "f">>
OpenEachTag == <<"{", "{", "#", "e", "a", "c", "h">>

\* an opening tag of a block at offset i: the block type ends at white
\* space or at the close marker
OpensBlock(s, i, open_tag) ==
    /\ StartsWith(s, i, open_tag)
    /\ i + Len(open_tag) < Len(s)
    /\ s[i + Len(open_tag) + 1] \in {" ", "}"}

\* the offset behind the first close marker at or after offset i
RECURSIVE TagEnd(_, _)
TagEnd(s, i) ==
    IF i >= Len(s) THEN Len(s)
    ELSE IF StartsWith(s, i, CloseMarker) THEN i + 2
    ELSE TagEnd(s, i + 1)

\* the blocks opened in s from offset i on and left without their closing
\* marker, innermost last, reading s tag by tag; a closing marker of another
\* kind closes nothing
RECURSIVE OpenBlocks(_, _, _)
OpenBlocks(s, i, open) ==
    IF i >= Len(s) THEN open
    ELSE IF ~StartsWith(s, i, OpenMarker) THEN OpenBlocks(s, i + 1, open)
    ELSE IF OpensBlock(s, i, OpenIfTag)
         THEN OpenBlocks(s, TagEnd(s, i), Append(open, [tag |-> "if", position |-> i]))
    ELSE IF OpensBlock(s, i, OpenEachTag)
         THEN OpenBlocks(s, TagEnd(s, i), Append(open, [tag |-> "each", position |-> i]))
    ELSE IF StartsWith(s, i, T_endif) /\ open # <<>> /\ open[Len(open)].tag = "if"
         THEN OpenBlocks(s, i + 7, SubSeq(open, 1, Len(open) - 1))
    ELSE IF StartsWith(s, i, T_endeach) /\ open # <<>> /\ open[Len(open)].tag = "each"
         THEN OpenBlocks(s, i + 9, SubSeq(open, 1, Len(open) - 1))
    ELSE OpenBlocks(s, TagEnd(s, i + 2), open)

UnclosedBlocks == OpenBlocks(input, 0, <<>>)

BlockTag(kind) == IF kind = "each" THEN "each" ELSE "if"

\* C4 (as stated): whenever an opening tag is left without its closing
\* marker, the error returned is UnclosedTag with the tag and the offset of
\* an opening tag that is left open.
C4_AlwaysUnclosedTag ==
    (pc = "failed" /\ UnclosedBlocks # <<>>) =>
      /\ result.err.type = "UnclosedTag"
      /\ \E k \in 1..Len(UnclosedBlocks) :
           /\ UnclosedBlocks[k].tag = result.err.tag
           /\ UnclosedBlocks[k].position = result.err.position

\* C4 (amended): a template is never accepted with a block left open; an
\* UnclosedTag error names the innermost block left open and the offset of
\* its opening tag; and when the scan of a block's body reaches the end of
\* the input, the parse ends at once with UnclosedTag for that block.
C4_UnclosedBlock ==
    /\ [](/\ pc \in {"parsed", "rendered"} => UnclosedBlocks = <<>>
          /\ (pc = "failed" /\ result.err.type = "UnclosedTag") =>
               /\ UnclosedBlocks # <<>>
               /\ result.err.tag = UnclosedBlocks[Len(UnclosedBlocks)].tag
               /\ result.err.position = UnclosedBlocks[Len(UnclosedBlocks)].position
               /\ result.err.tag \in {"if", "each"})
    /\ [][(pc = "parsing" /\ pos >= Len(input) /\ Len(stack) > 1) =>
            /\ pc' = "failed"
            /\ result' = Failed(UnclosedTag(BlockTag(Top.kind), Top.tag_start))]_vars

C4_Witness ==
    /\ pc = "failed"
    /\ result.err.type = "UnclosedTag"
    /\ result.err.position > 0
    /\ Len(UnclosedBlocks) > 1

\* C5: every iteration of the loop of parse_nodes returns from the parse or
\* moves the cursor forward.
C5_IterationAdvances ==
    [][(pc = "parsing" /\ iters' = iters + 1) => (pos' > pos \/ pc' # "parsing")]_vars

\* C6: parse_template never panics.
C6_NoPanic == pc # "panicked"

MeetsStrayClosingTag ==
    /\ pc = "parsing"
    /\ pos < Len(input)
    /\ ~AtEndTag
    /\ StartsWith(input, pos, T_endif) \/ StartsWith(input, pos, T_endeach)

\* C7: a closing marker met where it is no acceptable terminator ends the
\* parse with the error UnexpectedClosingTag.
C7_UnexpectedClosingTag ==
    [][MeetsStrayClosingTag =>
         /\ pc' = "failed"
         /\ result'.kind = "err"
         /\ result'.err.type = "UnexpectedClosingTag"]_vars

NoOpenMarker(s) == \A i \in 0..(Len(s) - 1) : ~StartsWith(s, i, OpenMarker)

\* C8: a template without an open marker renders to itself, for every
\* content record.
C8_LiteralRoundTrip ==
    (NoOpenMarker(input) /\ pc \notin {"parsing", "parsed"}) =>
      /\ pc = "rendered"
      /\ render_result = [kind |-> "ok", text |-> input]

\* what a Variable node emits for the string s
Emitted(path, s) == IF IsImagePath(path) THEN s ELSE EscapedForm(s)

ExpectedNested(d) ==
    Concat([i \in 1..Len(d.features) |->
              Concat([j \in 1..Len(d.stats) |->
                        EscapedForm(d.stats[j].value \o <<":", " ">> \o d.stats[j].label)
                          \o <<Digits[j]>>])
                \o EscapedForm(d.features[i]) \o <<Digits[i]>>])

\* C10: in a loop body `this` is the item and `@index` the 0-based index of
\* the nearest enclosing loop, the outer loop's again after an inner loop
\* has ended, and outside every loop both resolve to nothing, whatever the
\* metadata map holds under these names.
C10_LoopVariables ==
    pc = "rendered" =>
      /\ \A i \in 1..Len(visits) :
           LET v == visits[i] IN
           /\ v.path[1] = K_this =>
                v.value = IF v.context.some THEN Some(v.context.v.item) ELSE None
           /\ v.path[1] = K_index =>
                v.value = IF v.context.some THEN Some(<<Digits[v.context.v.index + 1]>>)
                          ELSE None
      /\ input = P_each \o P_inner \o P_tail => render_result.text = ExpectedNested(data)
      /\ input \in {P_this \o P_index, P_each \o P_endeach \o P_this,
                    P_inner \o P_this_x \o P_index}
           => \A i \in 1..Len(visits) :
                visits[i].context = None => visits[i].pushed = <<>>
      /\ input = P_this \o P_index => render_result.text = <<>>

C10_Witness ==
    /\ pc = "rendered"
    /\ input = P_each \o P_inner \o P_tail
    /\ \E i \in 1..Len(visits) :
         /\ visits[i].context.some
         /\ visits[i].context.v.parent.some
         /\ visits[i].path[1] = K_index
         /\ visits[i].context.v.index = 1
    /\ \E i \in 1..Len(visits) :
         /\ visits[i].context.some
         /\ ~visits[i].context.v.parent.some
         /\ visits[i].path = <<K_this, <<"x">>>>

(***************************************************************************)
(* Path resolution and truthiness.                                         *)
(***************************************************************************)
SimpleValue(key, d) ==
    IF key = K_title THEN Some(d.title)
    ELSE IF key = K_subtitle THEN d.subtitle
    ELSE IF key = K_body THEN Some(d.body)
    ELSE IF key \in DOMAIN d.metadata THEN Some(d.metadata[key])
    ELSE None

\* C11: a path of one segment other than this and @index resolves to the
\* fixed field when the segment is title, subtitle or body, whatever the
\* metadata holds under that key, and otherwise to the metadata entry under
\* exactly that key, or to nothing when there is none.
C11_SimplePath ==
    pc = "rendered" =>
      /\ \A i \in 1..Len(visits) :
           LET v == visits[i] IN
           (Len(v.path) = 1 /\ v.path[1] \notin {K_this, K_index})
             => v.value = SimpleValue(v.path[1], data)
      /\ (input = P_title \o VarTag(K_subtitle) \o VarTag(K_body) /\ data = DataShadow)
           => render_result = [kind |-> "ok", text |-> <<"t">>]
      /\ (input = VarTag(K_nokey) \o P_meta /\ data = DataFull)
           => render_result = [kind |-> "ok", text |-> EscapedForm(<<"m", "$", "[", "]">>)]

C11_Witness ==
    /\ pc = "rendered"
    /\ input = P_title \o VarTag(K_subtitle) \o VarTag(K_body)
    /\ data = DataShadow
    /\ Len(visits) = 3
    /\ visits[2].value = None
    /\ K_subtitle \in DOMAIN data.metadata
    /\ render_result = [kind |-> "ok", text |-> <<"t">>]

\* the value the listed multi-segment paths select, and nothing for any other
NestedValue(path, d) ==
    IF Len(path) # 2 THEN None
    ELSE IF path[1] = K_style /\ d.style.some
      THEN (IF path[2] \in {K_primary_color, K_primaryColor} THEN d.style.v.primary_color
            ELSE IF path[2] \in {K_accent_color, K_accentColor} THEN d.style.v.accent_color
            ELSE IF path[2] \in {K_font_family, K_fontFamily} THEN d.style.v.font_family
            ELSE None)
    ELSE IF path[1] = K_contact /\ d.contact.some
      THEN (IF path[2] = K_email THEN d.contact.v.email
            ELSE IF path[2] = K_phone THEN d.contact.v.phone
            ELSE IF path[2] = K_website THEN d.contact.v.website
            ELSE IF path[2] = K_address THEN d.contact.v.address
            ELSE None)
    ELSE IF path[1] = K_images /\ path[2] \in DOMAIN d.images
      THEN Some(d.images[path[2]])
    ELSE IF path[2] = K_length /\ path[1] = K_sections
      THEN Some(usize_to_string(Len(d.sections)))
    ELSE IF path[2] = K_length /\ path[1] = K_features
      THEN Some(usize_to_string(Len(d.features)))
    ELSE IF path[2] = K_length /\ path[1] = K_stats
      THEN Some(usize_to_string(Len(d.stats)))
    ELSE None

\* C12: a path of two or more segments (not under this or @index) resolves
\* to a value only when it is one of style.<field>, contact.<field>,
\* images.<slot> and <array>.length; every other path of several segments,
\* whatever their number, resolves to nothing.
C12_MultiSegment ==
    pc = "rendered" =>
      \A i \in 1..Len(visits) :
        LET v == visits[i] IN
        (Len(v.path) >= 2 /\ v.path[1] \notin {K_this, K_index})
          => v.value = NestedValue(v.path, data)

\* the paths with a truthiness rule of their own
SpecialPaths ==
    {K_sections, K_features, K_stats, K_subtitle, K_contact, K_style, K_images,
     Dot(K_images, K_logo), Dot(K_images, K_none)}

SpecialTruthy(p, d) ==
    CASE p = K_sections -> Len(d.sections) > 0
      [] p = K_features -> Len(d.features) > 0
      [] p = K_stats -> Len(d.stats) > 0
      [] p = K_subtitle -> d.subtitle.some /\ Len(d.subtitle.v) > 0
      [] p = K_contact -> d.contact.some
      [] p = K_style -> d.style.some
      [] p = K_images -> DOMAIN d.images # {}
      [] p = Dot(K_images, K_logo) -> K_logo \in DOMAIN d.images
      [] p = Dot(K_images, K_none) -> K_none \in DOMAIN d.images

\* C13: a conditional over sections, features or stats takes its then-branch
\* exactly when the array is non-empty; over subtitle, when it is present
\* and non-empty; over contact or style, when the record is present; over
\* images, when the map has an entry; over images.<slot>, when the map has
\* that key, whatever string is stored under it.
C13_SpecialTruthiness ==
    pc = "rendered" =>
      \A p \in SpecialPaths :
        input = IfTag(p) \o P_text \o P_endif
          => render_result =
               [kind |-> "ok",
                text |-> IF SpecialTruthy(p, data) THEN P_text ELSE <<>>]

\* the slot `none` holds the empty string and the conditional is truthy
C13_Witness ==
    /\ pc = "rendered"
    /\ input = IfTag(Dot(K_images, K_none)) \o P_text \o P_endif
    /\ data = DataEmptyStrings
    /\ data.images[K_none] = <<>>
    /\ render_result = [kind |-> "ok", text |-> P_text]

\* paths outside the special ones, as their segments
FallbackPaths ==
    {<<K_title>>, <<K_tag>>, <<K_contact, K_email>>, <<K_style, K_primary_color>>,
     <<K_stats, K_length>>}

\* the text of a path: its segments joined with dots
RECURSIVE Dotted(_)
Dotted(path) ==
    IF Len(path) = 1 THEN path[1] ELSE Dot(path[1], Dotted(Tail(path)))

ResolvesNonEmpty(path, d) ==
    LET v == resolve_path(path, d, None) IN v.some /\ Len(v.v) > 0

\* C14: a conditional over a path outside the special ones (title, a
\* metadata key, contact.email, style.primary_color, stats.length) takes
\* its then-branch exactly when the path resolves to a non-empty string:
\* {{#if contact.email}}A{{else}}B{{/if}} renders A exactly when
\* contact.email resolves to a non-empty value, and B otherwise.
C14_FallbackTruthiness ==
    pc = "rendered" =>
      \A path \in FallbackPaths :
        input = IfTag(Dotted(path)) \o P_A_else_B
          => render_result =
               [kind |-> "ok",
                text |-> IF ResolvesNonEmpty(path, data) THEN <<"A">> ELSE <<"B">>]

(***************************************************************************)
(* Conditionals and loops.                                                 *)
(***************************************************************************)
HasSubtitle(d) == d.subtitle.some /\ Len(d.subtitle.v) > 0

\* C15: a conditional renders exactly one of its two branches, the
\* then-branch when its path is truthy and otherwise the else-branch, which
\* is empty when the template gives none:
\* {{#if subtitle}}{{subtitle}}{{else}}none{{/if}} yields `none` when the
\* subtitle is absent or empty and the escaped subtitle otherwise.
C15_OneBranch ==
    pc = "rendered" =>
      /\ input = P_if \o VarTag(K_subtitle) \o P_else \o K_none \o P_endif
           => render_result =
                [kind |-> "ok",
                 text |-> IF HasSubtitle(data) THEN EscapedForm(data.subtitle.v)
                          ELSE K_none]
      /\ input = P_if \o VarTag(K_subtitle) \o P_endif
           => render_result =
                [kind |-> "ok",
                 text |-> IF HasSubtitle(data) THEN EscapedForm(data.subtitle.v)
                          ELSE <<>>]
      /\ input = IfTag(K_title) \o P_title \o P_else \o K_none \o P_endif
           => render_result =
                [kind |-> "ok",
                 text |-> IF Len(data.title) > 0 THEN EscapedForm(data.title)
                          ELSE K_none]

C15_Witness ==
    /\ pc = "rendered"
    /\ input = P_if \o VarTag(K_subtitle) \o P_else \o K_none \o P_endif
    /\ HasSubtitle(data)
    /\ HasReserved(data.subtitle.v)
    /\ render_result = [kind |-> "ok", text |-> EscapedForm(data.subtitle.v)]

\* one string per element: a feature as stored, a stat as `value: label`,
\* a section as its heading and its content or bracketed item list
Flattened(section) ==
    IF section.section_type = "List"
    THEN section.heading \o <<":", " ", "[">> \o JoinComma(section.items.v) \o <<"]">>
    ELSE section.heading \o <<":", " ">> \o section.content

Elements(p, d) ==
    CASE p = K_features -> d.features
      [] p = K_stats ->
           [i \in 1..Len(d.stats) |-> d.stats[i].value \o <<":", " ">> \o d.stats[i].label]
      [] p = K_sections ->
           [i \in 1..Len(d.sections) |-> Flattened(d.sections[i])]
      [] p = K_title -> <<>>

\* the body [{{this}}{{@index}}] once per element, from element i on
RECURSIVE ExpectedItems(_, _)
ExpectedItems(items, i) ==
    IF i > Len(items) THEN <<>>
    ELSE <<"[">> \o EscapedForm(items[i]) \o usize_to_string(i - 1) \o <<"]">>
           \o ExpectedItems(items, i + 1)

\* C16: a loop renders its body once per element of the selected array, in
\* array order, with this bound to the element's string (a feature as
\* stored, a section or a stat as one flattened string) and @index to
\* 0, 1, 2, ...; a path that selects none of features, sections and stats,
\* or an empty array, renders the body zero times.
C16_LoopExpansion ==
    pc = "rendered" =>
      \A p \in {K_features, K_stats, K_sections, K_title} :
        input = EachTag(p) \o P_item \o P_endeach
          => render_result =
               [kind |-> "ok", text |-> ExpectedItems(Elements(p, data), 1)]

C16_Witness ==
    /\ pc = "rendered"
    /\ input = EachTag(K_sections) \o P_item \o P_endeach
    /\ Len(data.sections) = 2
    /\ render_result =
         [kind |-> "ok",
          text |-> <<"[", "H", ":", " ", "c", "0", "]",
                     "[", "L", ":", " ", "\\", "[", "x", ",", " ", "y", "\\", "]", "1", "]">>]

(***************************************************************************)
(* Compilation to SVG and the links of the first page.                     *)
(***************************************************************************)
\* the link items of a frame and of its groups, depth first
RECURSIVE LinkItems(_)
LinkItems(frame) ==
    IF frame = <<>> THEN <<>>
    ELSE LET it == Head(frame).item IN
         (IF it.kind = "Link" THEN <<it>>
          ELSE IF it.kind = "Group" THEN LinkItems(it.frame)
          ELSE <<>>) \o LinkItems(Tail(frame))

IsUrlLink(it) == it.dest.kind = "Url"

\* the number of offsets of s at which pat stands
Occurrences(s, pat) ==
    Cardinality({i \in 0..(Len(s) - Len(pat)) : SubSeq(s, i + 1, i + Len(pat)) = pat})

SeverityName(d) ==
    IF d.severity = "Error" THEN <<"E", "r", "r", "o", "r">> ELSE <<"W", "a", "r", "n", "i", "n", "g">>

\* C17: compile_to_svg returns Ok with the image of the first page only,
\* with one link overlay per link found on it, inserted in front of the
\* closing tag; Err with the single message `Document has no pages` for a
\* document without pages; and, when the compilation fails, Err with one
\* string `<Severity>: <message>` per diagnostic, in order.  Warnings of a
\* compilation that succeeds are not returned.
C17_ThreeOutcomes ==
    world_result.call = "compile_to_svg" =>
      LET out == compiled.output IN
      IF out.kind = "err"
      THEN world_result.ret =
             Err([i \in 1..Len(out.e) |->
                    SeverityName(out.e[i]) \o <<":", " ">> \o out.e[i].message])
      ELSE IF out.v.pages = <<>>
      THEN world_result.ret = Err(<< <<"D", "o", "c", "u", "m", "e", "n", "t", " ", "h", "a", "s", " ", "n", "o", " ", "p", "a", "g", "e", "s">> >>)
      ELSE LET first == out.v.pages[1]
               image == <<"<", "s", "v", "g", ">">> \o first.body
               closing == <<"<", "/", "s", "v", "g", ">">>
               urls == SelectSeq(LinkItems(first.frame), IsUrlLink)
               svg == world_result.ret.v
           IN /\ world_result.ret.kind = "ok"
              /\ Len(svg) >= Len(image) + Len(closing)
              /\ SubSeq(svg, 1, Len(image)) = image
              /\ SubSeq(svg, Len(svg) - Len(closing) + 1, Len(svg)) = closing
              /\ Occurrences(svg, <<"<", "a", " ">>) = Len(urls)
              /\ (urls = <<>> => svg = image \o closing)

\* a document of two pages, compiled with a warning, with links on page one
C17_Witness ==
    /\ world_result.call = "compile_to_svg"
    /\ compiled.output.kind = "ok"
    /\ Len(compiled.output.v.pages) = 2
    /\ compiled.warnings # <<>>
    /\ world_result.ret.kind = "ok"
    /\ Len(page_links) = 2

(***************************************************************************)
(* The resolution of identifiers by a world.                               *)
(***************************************************************************)
RECURSIVE LastSource(_)
LastSource(cs) ==
    LET c == cs[Len(cs)] IN
    IF c.op \in {"new", "set_source"} THEN c.source
    ELSE LastSource(SubSeq(cs, 1, Len(cs) - 1))

RECURSIVE LastAdded(_, _)
LastAdded(cs, id) ==
    IF cs = <<>> THEN None
    ELSE LET c == cs[Len(cs)] IN
         IF c.op = "add_file" /\ c.path = id THEN Some(c.content)
         ELSE LastAdded(SubSeq(cs, 1, Len(cs) - 1), id)

\* the world holds what the calls so far put into it, and nothing else
WorldAsCalled ==
    /\ world.main = LastSource(calls)
    /\ \A id \in Paths \cup {"/none.typ"} :
         IF LastAdded(calls, id).some
         THEN id \in DOMAIN world.files /\ world.files[id] = LastAdded(calls, id).v
         ELSE id \notin DOMAIN world.files

MainResolves ==
    (world_result.call = "source" /\ world_result.id = MainId)
      => world_result.ret = Ok(LastSource(calls))

FileResolves ==
    (world_result.call = "file" /\ world_result.id # MainId)
      => world_result.ret =
           (IF LastAdded(calls, world_result.id).some
            THEN Ok(LastAdded(calls, world_result.id).v)
            ELSE Err("NotFound"))

\* C18 (as stated): after any sequence of set_source and add_file calls,
\* source(main id) returns the text most recently set as the main source;
\* file(id) and source(id) for any other identifier return the bytes most
\* recently added under it; an identifier never added fails with NotFound;
\* a look-up changes nothing in the world.
C18_ResolutionAsStated ==
    /\ WorldAsCalled
    /\ MainResolves
    /\ FileResolves
    /\ (world_result.call = "source" /\ world_result.id # MainId)
         => world_result.ret =
              (IF LastAdded(calls, world_result.id).some
               THEN Ok(LastAdded(calls, world_result.id).v)
               ELSE Err("NotFound"))

\* C18 (amended): as stated, except that source(id) for an identifier other
\* than the main one returns the bytes most recently added under it as text
\* only when they are valid UTF-8, and fails with InvalidUtf8 when not.
C18_Resolution ==
    /\ WorldAsCalled
    /\ MainResolves
    /\ FileResolves
    /\ (world_result.call = "source" /\ world_result.id # MainId)
         => LET added == LastAdded(calls, world_result.id) IN
            world_result.ret =
              (IF ~added.some THEN Err("NotFound")
               ELSE IF from_utf8_ok(added.v) THEN Ok(added.v)
               ELSE Err("InvalidUtf8"))

\* text replaced under /a.png by bytes that are no UTF-8, then source(id)
C18_Witness ==
    /\ world_result.call = "source"
    /\ world_result.id = "/a.png"
    /\ Len(calls) = 3
    /\ calls[2] = [op |-> "add_file", path |-> "/a.png", content |-> <<"a">>]
    /\ calls[3] = [op |-> "add_file", path |-> "/a.png", content |-> <<"A9">>]
    /\ world_result.ret = Err("InvalidUtf8")

(***************************************************************************)
(* The LIBRARY static.                                                     *)
(***************************************************************************)
TheLibrary == [id |-> 1]

LibraryOnce ==
    /\ constructed <= 1
    /\ LIBRARY.state = "complete" => LIBRARY.value = Some(TheLibrary)
    /\ \A t \in Threads : threads[t].lib.some => threads[t].lib.v = TheLibrary

\* C19: under every interleaving of library() calls from any threads the
\* library is constructed exactly once, every call returns that same
\* object, and nothing modifies the cell once it holds the library.
C19_Singleton ==
    /\ []LibraryOnce
    /\ [][LIBRARY.state = "complete" => LIBRARY' = LIBRARY]_vars

\* two threads hold the library, one of them from a repeated call, while a
\* third has made no call yet
C19_Witness ==
    /\ constructed = 1
    /\ \E t, u, w \in Threads :
         /\ t # u
         /\ threads[t].lib.some /\ threads[t].calls >= 2
         /\ threads[u].lib.some
         /\ threads[w].calls = 0

(***************************************************************************)
(* Link extraction.                                                        *)
(***************************************************************************)
FirstPageRendered ==
    /\ world_result.call = "compile_to_svg"
    /\ compiled.output.kind = "ok"
    /\ compiled.output.v.pages # <<>>

LinksMatch(items) ==
    /\ Len(page_links) = Len(items)
    /\ \A i \in 1..Len(items) :
         /\ page_links[i].width = items[i].size.x
         /\ page_links[i].height = items[i].size.y
         /\ page_links[i].url = items[i].dest.url

\* C20 (as stated): the links found are exactly one record for every link
\* item of the first page's frame, at any depth, in depth-first document
\* order, with that item's size and destination string; other items add
\* nothing.
C20_RecordPerLinkItem ==
    FirstPageRendered => LinksMatch(LinkItems(compiled.output.v.pages[1].frame))

\* C20 (amended): one record for every link item whose destination is a
\* URL, at any depth, in depth-first document order, with that item's size
\* and URL; link items with another destination and items that are no
\* links add nothing.
C20_RecordPerUrlLink ==
    FirstPageRendered =>
      LinksMatch(SelectSeq(LinkItems(compiled.output.v.pages[1].frame), IsUrlLink))

\* a link to a position and a group with a link to a URL: one record
C20_Witness ==
    /\ FirstPageRendered
    /\ LET items == LinkItems(compiled.output.v.pages[1].frame) IN
       /\ Len(items) = 2
       /\ ~IsUrlLink(items[1])
       /\ IsUrlLink(items[2])
       /\ compiled.output.v.pages[1].frame[2].item.kind = "Group"
    /\ Len(page_links) = 1
    /\ page_links[1].url = <<"a", "&", "b">>

\* the place and size of every URL link of a frame: sx and sy are the sums
\* of the offsets and translations of the groups around the frame
RECURSIVE Places(_, _, _)
Places(frame, sx, sy) ==
    IF frame = <<>> THEN <<>>
    ELSE LET at == Head(frame).pos
             it == Head(frame).item
         IN (IF it.kind = "Link" /\ IsUrlLink(it)
             THEN <<[x |-> sx + at.x, y |-> sy + at.y,
                     width |-> it.size.x, height |-> it.size.y]>>
             ELSE IF it.kind = "Group"
             THEN Places(it.frame, sx + at.x + it.transform.tx, sy + at.y + it.transform.ty)
             ELSE <<>>) \o Places(Tail(frame), sx, sy)

\* the frame with the scale and the skew of every transform removed
RECURSIVE Unscaled(_)
Unscaled(frame) ==
    [i \in 1..Len(frame) |->
       IF frame[i].item.kind = "Group"
       THEN [frame[i] EXCEPT
               !.item.frame = Unscaled(@),
               !.item.transform = Translate(@.tx, @.ty, 1)]
       ELSE frame[i]]

XmlEntity(c) ==
    CASE c = "&" -> <<"&", "a", "m", "p", ";">>
      [] c = "<" -> <<"&", "l", "t", ";">>
      [] c = ">" -> <<"&", "g", "t", ";">>
      [] c = "\"" -> <<"&", "q", "u", "o", "t", ";">>
      [] c = "'" -> <<"&", "a", "p", "o", "s", ";">>
      [] OTHER -> <<c>>

RECURSIVE XmlEscaped(_)
XmlEscaped(s) == IF s = <<>> THEN <<>> ELSE XmlEntity(Head(s)) \o XmlEscaped(Tail(s))

\* a whole number in decimal digits
RECURSIVE Decimal(_)
Decimal(n) ==
    IF n < 0 THEN <<"-">> \o Decimal(0 - n)
    ELSE IF n < 10 THEN <<SubSeq(<<"0", "1", "2", "3", "4", "5", "6", "7", "8", "9">>, n + 1, n + 1)[1]>>
    ELSE Decimal(n \div 10) \o Decimal(n % 10)

Attribute(name, value) == <<" ">> \o name \o <<"=", "\"">> \o value \o <<"\"">>

\* the anchor of a link record: a transparent rectangle of the record's
\* place and size, referring to the escaped destination
Anchor(rec) ==
    <<"<", "a">> \o Attribute(<<"h", "r", "e", "f">>, XmlEscaped(rec.url))
      \o Attribute(<<"t", "a", "r", "g", "e", "t">>, <<"_", "s", "e", "l", "f">>)
      \o <<">", "<", "r", "e", "c", "t">>
      \o Attribute(<<"x">>, Decimal(rec.x))
      \o Attribute(<<"y">>, Decimal(rec.y))
      \o Attribute(<<"w", "i", "d", "t", "h">>, Decimal(rec.width))
      \o Attribute(<<"h", "e", "i", "g", "h", "t">>, Decimal(rec.height))
      \o Attribute(<<"f", "i", "l", "l">>, <<"t", "r", "a", "n", "s", "p", "a", "r", "e", "n", "t">>)
      \o Attribute(<<"s", "t", "y", "l", "e">>, <<"c", "u", "r", "s", "o", "r", ":", " ", "p", "o", "i", "n", "t", "e", "r", ";">>)
      \o <<" ", "/", ">", "<", "/", "a", ">">>

RECURSIVE Anchors(_)
Anchors(recs) == IF recs = <<>> THEN <<>> ELSE Anchor(Head(recs)) \o Anchors(Tail(recs))

ParseEnded == pc \in {"parsed", "failed", "panicked", "rendered", "render_failed"}

\* the offset of the first variable tag of the input whose default clause
\* opens a literal with the quote q that is never closed, PANIC for none:
\* no quote stands in front of the clause and no q behind its opening
UnterminatedDefault(q) ==
    LET lead == OpenMarker \o K_title \o <<" ">>
        at == {i \in 0..Len(input) :
                 /\ StartsWith(input, i, lead \o ClauseOpen(q))
                 /\ \A j \in 1..(i + Len(lead)) : input[j] \notin {"'", "\""}
                 /\ \A j \in (i + Len(lead) + Len(ClauseOpen(q)) + 1)..Len(input) :
                      input[j] # q}
    IN IF at = {} THEN PANIC ELSE CHOOSE i \in at : TRUE

\* C24 as stated: a variable tag whose default clause opens a literal that
\* is never closed is accepted as a Variable with no default, without a
\* parse error.
C24_UnterminatedNoDefault ==
    \A q \in {"'", "\""} :
      (ParseEnded /\ UnterminatedDefault(q) # PANIC) =>
        /\ result.kind = "ok"
        /\ \E n \in 1..Len(result.nodes) : result.nodes[n] = Variable(<<K_title>>, None)

\* C24: a variable tag whose default clause opens a literal that is never
\* closed is rejected: the parse fails with InvalidSyntax at the offset of
\* the tag, and no AST is returned.
C24_UnterminatedRejected ==
    \A q \in {"'", "\""} :
      (ParseEnded /\ UnterminatedDefault(q) # PANIC) =>
        result = Failed(InvalidSyntax("Expected '}}' to close variable tag", <<>>,
                                      UnterminatedDefault(q)))

\* text, a tag with a literal that is not closed, text
C24_Witness ==
    /\ pc = "failed"
    /\ input = P_text \o OpenDefault("'") \o P_text
    /\ UnterminatedDefault("'") = 2
    /\ result.err.type = "InvalidSyntax"

\* a path is a non-empty list of non-empty segments
ValidPath(path) == path # <<>> /\ \A i \in 1..Len(path) : path[i] # <<>>

RECURSIVE ValidPaths(_)
ValidPaths(nodes) ==
    \A i \in 1..Len(nodes) :
      LET n == nodes[i] IN
      CASE n.type = "Variable" -> ValidPath(n.path)
        [] n.type = "Conditional" ->
             ValidPath(n.path) /\ ValidPaths(n.then_branch) /\ ValidPaths(n.else_branch)
        [] n.type = "Loop" -> ValidPath(n.path) /\ ValidPaths(n.body)
        [] OTHER -> TRUE

\* C25: in every AST that parse_template returns the path of every
\* Variable, Conditional and Loop node is a non-empty list of non-empty
\* segments; a tag whose payload has no segment is rejected instead.
C25_PathInvariant ==
    (ParseEnded /\ result.kind = "ok") => ValidPaths(result.nodes)

\* the offset of the first occurrence of pat in s at or behind offset i,
\* Len(s) for none
NextAt(s, i, pat) ==
    LET at == {j \in i..Len(s) : StartsWith(s, j, pat)}
    IN IF at = {} THEN Len(s) ELSE CHOOSE j \in at : \A k \in at : j <= k

\* the token of a tag with the given payload: a tag with blanks, a default
\* clause or an empty path segment is no token of a plain template
TagToken(payload) ==
    LET plain(t) == ValidPath(Split(t)) /\ \A i \in 1..Len(t) : t[i] \notin {" ", "|", "#", "/", "{", "}"}
        after(n) == SubSeq(payload, n + 1, Len(payload))
    IN CASE payload = <<"e", "l", "s", "e">> -> [t |-> "else"]
         [] payload = <<"/", "i", "f">> -> [t |-> "endif"]
         [] payload = <<"/", "e", "a", "c", "h">> -> [t |-> "endeach"]
         [] StartsWith(payload, 0, <<"#", "i", "f", " ">>) /\ plain(after(4)) ->
              [t |-> "if", path |-> Split(after(4))]
         [] StartsWith(payload, 0, <<"#", "e", "a", "c", "h", " ">>) /\ plain(after(6)) ->
              [t |-> "each", path |-> Split(after(6))]
         [] plain(payload) -> [t |-> "node", node |-> Variable(Split(payload), None)]
         [] OTHER -> [t |-> "other"]

\* the tags and the texts between them, from offset i on
RECURSIVE Tokens(_, _)
Tokens(s, i) ==
    IF i >= Len(s) THEN <<>>
    ELSE IF StartsWith(s, i, OpenMarker)
    THEN LET e == NextAt(s, i + 2, CloseMarker) IN
         IF e = Len(s) THEN <<[t |-> "other"]>>
         ELSE <<TagToken(Slice(s, i + 2, e))>> \o Tokens(s, e + 2)
    ELSE LET e == NextAt(s, i, OpenMarker) IN
         <<[t |-> "node", node |-> Text(Slice(s, i, e))]>> \o Tokens(s, e)

\* the tree of a token list, built with a stack of the open blocks: a
\* node goes to the innermost open block, `else` turns the innermost
\* conditional to its else-branch, a closing marker closes the innermost
\* block, which must be of its kind.  NotNested when the blocks do not nest.
NotNested == [nested |-> FALSE]

RECURSIVE Nest(_, _)
Nest(toks, open) ==
    LET top == open[Len(open)]
        below == SubSeq(open, 1, Len(open) - 1)
        add(stk, n) == [stk EXCEPT ![Len(stk)].nodes = Append(@, n)]
    IN IF toks = <<>> THEN (IF Len(open) = 1 THEN [nested |-> TRUE, nodes |-> top.nodes] ELSE NotNested)
       ELSE LET k == Head(toks) IN
            CASE k.t = "node" -> Nest(Tail(toks), add(open, k.node))
              [] k.t = "if" ->
                   Nest(Tail(toks), Append(open, [b |-> "then", path |-> k.path, nodes |-> <<>>]))
              [] k.t = "each" ->
                   Nest(Tail(toks), Append(open, [b |-> "each", path |-> k.path, nodes |-> <<>>]))
              [] k.t = "else" ->
                   IF top.b # "then" THEN NotNested
                   ELSE Nest(Tail(toks),
                             Append(below, [b |-> "else", path |-> top.path,
                                            first |-> top.nodes, nodes |-> <<>>]))
              [] k.t = "endif" ->
                   IF top.b = "then"
                   THEN Nest(Tail(toks), add(below, Conditional(top.path, top.nodes, <<>>)))
                   ELSE IF top.b = "else"
                   THEN Nest(Tail(toks), add(below, Conditional(top.path, top.first, top.nodes)))
                   ELSE NotNested
              [] k.t = "endeach" ->
                   IF top.b = "each"
                   THEN Nest(Tail(toks), add(below, Loop(top.path, top.nodes)))
                   ELSE NotNested
              [] OTHER -> NotNested

\* the tree of a well-nested plain template, NotNested for any other input
Nesting(s) == Nest(Tokens(s, 0), <<[b |-> "top", nodes |-> <<>>]>>)

Ascii(s) == \A i \in 1..Len(s) : Len(s[i]) = 1

\* C26: for a well-nested template each `{{else}}` and each closing marker
\* goes to the innermost block open at that point, and the returned AST
\* nests Conditional and Loop nodes as the blocks nest in the source, the
\* nodes of one block in source order.
C26_BlockNesting ==
    (ParseEnded /\ Ascii(input) /\ Nesting(input).nested) =>
      result = [kind |-> "ok", nodes |-> Nesting(input).nodes]

\* an `{{else}}` behind a complete inner conditional belongs to the outer one
C26_Witness ==
    /\ pc = "parsed"
    /\ input = IfTag(K_title) \o IfTag(K_subtitle) \o <<"x">> \o P_endif
                  \o P_else \o <<"y">> \o P_endif
    /\ result.nodes =
         <<Conditional(<<K_title>>,
                       <<Conditional(<<K_subtitle>>, <<Text(<<"x">>)>>, <<>>)>>,
                       <<Text(<<"y">>)>>)>>

\* every node of an AST, at any depth
RECURSIVE NodesOf(_)
NodesOf(nodes) ==
    UNION {CASE nodes[i].type = "Conditional" ->
                  {nodes[i]} \cup NodesOf(nodes[i].then_branch) \cup NodesOf(nodes[i].else_branch)
             [] nodes[i].type = "Loop" -> {nodes[i]} \cup NodesOf(nodes[i].body)
             [] OTHER -> {nodes[i]} : i \in 1..Len(nodes)}

\* C23: extract_variables returns the set of the dotted paths of all
\* Variable, Conditional and Loop nodes of the AST at every depth, the
\* branches of conditionals and the bodies of loops included; Text nodes
\* add nothing, and the AST stays as it was.
C23_ExtractVariables ==
    tool_pc = "validated" =>
      /\ used_vars = {Dotted(n.path) : n \in {m \in NodesOf(result.nodes) : m.type # "Text"}}
      /\ pc = "parsed" /\ result.kind = "ok"

\* a variable in a loop in the else-branch of a conditional, behind a text
C23_Witness ==
    /\ tool_pc = "validated"
    /\ Dot(K_this, K_nokey) \in used_vars
    /\ K_body \in used_vars
    /\ Cardinality(used_vars) = 4
    /\ \E i \in 1..Len(result.nodes) : result.nodes[i].type = "Text"

\* the stages of a tool in their order, and the error that names each
ToolStages ==
    IF tool.kind = "write_json"
    THEN <<"from_str", "validate_schema", "render", "compile_fn">>
    ELSE <<"validate_template", "render", "compile_fn">>

StageError(stage) ==
    CASE stage = "from_str" -> "JSON parse error: {}"
      [] stage = "validate_schema" -> "Validation errors:\n{}"
      [] stage = "validate_template" -> "Template syntax errors:\n{}"
      [] stage = "render" -> "Template rendering failed:\n{}"
      [] stage = "compile_fn" -> "Typst compilation failed:\n{}"

\* the stage entered as the i-th passed
StagePassed(i) ==
    LET stage == tool_log[i].stage IN
    CASE stage = "from_str" -> tool.new_json.parse.kind = "ok"
      [] stage = "validate_schema" -> validate_schema(tool.new_json.parse.v).kind = "ok"
      [] stage = "validate_template" -> Trim(tool.new_template) # <<>> /\ pc # "failed"
      [] stage = "render" -> render_result.kind = "ok"
      [] stage = "compile_fn" -> tool_log[i].answer.kind = "ok"

\* C27: the tools validate in a fixed order and stop at the first stage
\* that fails, with an error naming it; compile_fn is called at most once
\* and only after every earlier stage passed; the new data or template is
\* returned if and only if every stage passed.
C27_ValidationOrder ==
    tool.kind # "none" =>
      LET n == Len(tool_log) IN
      /\ n <= Len(ToolStages)
      /\ \A i \in 1..n : tool_log[i].stage = ToolStages[i]
      /\ \A i \in 1..(n - 1) : StagePassed(i)
      /\ tool_pc = "returned" =>
           /\ n >= 1
           /\ tool_result.kind = "err" =>
                ~StagePassed(n) /\ tool_result.e.fmt = StageError(tool_log[n].stage)
           /\ tool_result.kind = "ok" <=> (n = Len(ToolStages) /\ StagePassed(n))
           /\ tool_result.kind = "ok" =>
                tool_result.v = IF tool.kind = "write_json" THEN tool.new_json.parse.v
                                ELSE tool.new_template

\* write_json refused by the compiler after three stages passed
C27_Witness ==
    /\ tool_pc = "returned"
    /\ tool.kind = "write_json"
    /\ Len(tool_log) = 4
    /\ tool_log[4].answer.kind = "err"
    /\ tool_result.kind = "err"

\* write_template accepted
C27_WitnessAccepted ==
    /\ tool_pc = "returned"
    /\ tool.kind = "write_template"
    /\ tool_result = Ok(tool.new_template)

\* the output of an attempt passes the verification: it is not empty, has
\* an svg tag and more than 100 bytes
Verified(svg) == Len(svg) > 100 /\ Occurrences(svg, <<"<", "s", "v", "g">>) > 0

\* the i-th attempt of the run did not succeed
Unsuccessful(i) ==
    compiles[i].answer.kind = "err" \/ ~Verified(compiles[i].answer.v)

RepliesReceived == {i \in 1..Len(chats) : chats[i].reply # None /\ chats[i].reply.v.kind = "ok"}

C28_Bounds ==
    agent_pc # "idle" =>
      /\ Len(chats) <= agent.max_iterations
      /\ Len(compiles) <= agent.max_iterations
      /\ agent_pc # "called" =>
           /\ state.iteration = Len(chats)
           /\ state.iteration <= agent.max_iterations
           /\ Len(state.history) = Cardinality(RepliesReceived)
           /\ Len(state.history) = Len(compiles)
           /\ \A i \in 1..Len(compiles) : state.history[i] = compiles[i].code
      /\ agent_result.kind = "MaxIterationsReached" =>
           /\ Len(chats) = agent.max_iterations
           /\ Len(compiles) = agent.max_iterations
           /\ \A i \in 1..Len(compiles) : Unsuccessful(i)

\* C28: one run calls the language model and compile_fn at most
\* max_iterations times each and ends once those calls return; it starts
\* from the reset state, the iteration counter never exceeds
\* max_iterations, the history has one entry per reply of the model, and
\* MaxIterationsReached is returned only after max_iterations unsuccessful
\* attempts (without any call when max_iterations is 0).
C28_RetryBound == []C28_Bounds /\ <>(agent_pc = "returned")

\* three unsuccessful attempts
C28_Witness ==
    /\ agent_result.kind = "MaxIterationsReached"
    /\ agent.max_iterations = 3
    /\ Len(chats) = 3
    /\ Len(compiles) = 3
    /\ state.iteration = 3

\* without any call
C28_WitnessZero ==
    /\ agent_result.kind = "MaxIterationsReached"
    /\ agent.max_iterations = 0
    /\ chats = <<>>
    /\ compiles = <<>>

C29_Results ==
    /\ agent_result.kind # "none" => agent_pc = "returned"
    /\ agent_result.kind = "Success" =>
         LET n == Len(compiles) IN
         /\ n >= 1
         /\ n = Len(chats)
         /\ compiles[n] = [code |-> agent_result.code, answer |-> Ok(agent_result.svg)]
         /\ Verified(agent_result.svg)
         /\ agent_result.iterations = Len(chats)
    /\ agent_result.kind = "Error" =>
         LET n == Len(chats) IN
         /\ n >= 1
         /\ chats[n].reply.v.kind = "err"
         /\ \A i \in 1..(n - 1) : chats[i].reply.v.kind = "ok"
         /\ Len(compiles) = n - 1

C29_Prompts ==
    \A i \in 1..Len(chats) :
      LET m == chats[i].messages IN
      IF i = 1
      THEN /\ m.system = "TYPST_GENERATION_SYSTEM"
           /\ m.user.a = IF agent.current_code = None THEN <<agent.request>>
                          ELSE <<agent.current_code.v, agent.request>>
      ELSE /\ Unsuccessful(i - 1)
           /\ m.system = "ERROR_RECOVERY_SYSTEM"
           /\ m.user.fmt[1] = "The following Typst code has an error:\n\n"
           /\ m.user.a[1] = compiles[i - 1].code
           /\ IF compiles[i - 1].answer.kind = "err"
              THEN m.user.a[2] = compiles[i - 1].answer.e
              ELSE m.user.a[2][1] = "Verification failed: {}"

\* C29: Success carries the code that compile_fn accepted in the last
\* attempt, its verified output and the number of calls of the model;
\* Error is returned at the first failing call of the model, with no call
\* behind it; every attempt behind a failed compile or verification uses
\* the error-recovery prompt made of the code and the error of the attempt
\* before, and the first attempt the normal generation prompt.
C29_Outcomes ==
    /\ [](agent_pc # "idle" => C29_Results /\ C29_Prompts)
    /\ [][agent_pc = "returned" => (chats' = chats /\ compiles' = compiles)]_vars

\* success in the second attempt, behind a failed verification
C29_Witness ==
    /\ agent_result.kind = "Success"
    /\ agent_result.iterations = 2
    /\ agent_result.code = <<"=", " ", "G">>
    /\ compiles[1].answer.kind = "ok"
    /\ chats[2].messages.system = "ERROR_RECOVERY_SYSTEM"

\* the editor between two calls of its setters
EditorReady == editor_pc = "ready"

\* the signals against the last rendering of template_source with
\* content_data
EditorRendered ==
    /\ input = editor.template_source
    /\ render_result.kind \in {"ok", "err"}
    /\ render_result.kind = "ok" =>
         /\ data = editor.content_data
         /\ editor.error = None
         /\ editor.typst_source = render_result.text
    /\ render_result.kind = "err" =>
         /\ editor.error = Some([fmt |-> "Template rendering error:\n{}",
                                 a |-> render_result.errors])

\* typst_source is written by a successful rendering only
TypstSourceKept ==
    (editor.created /\ editor'.typst_source # editor.typst_source) =>
        /\ editor_pc = "render"
        /\ render_result.kind = "ok"
        /\ editor'.typst_source = render_result.text

\* set_json on a text that serde_json rejects
SetJsonRejected ==
    (EditorReady /\ editor_ret'.call = "set_json" /\ from_str(editor_ret'.arg).kind = "err") =>
        /\ editor_ret'.ret.kind = "err"
        /\ editor_ret'.ret.e.fmt = "Failed to parse JSON: {}"
        /\ editor' = editor
        /\ editor_pc' = editor_pc

\* C30: between the calls of set_content_data, set_template_source and
\* set_json on an EditorState made by new() or from_template(), a last
\* rendering that succeeded leaves error None and typst_source equal to
\* the rendering of template_source with content_data, a last rendering
\* that failed leaves error set and typst_source at the value of the last
\* successful rendering, and set_json on a text that does not parse
\* returns an error and changes no signal.
C30_EditorConsistency ==
    /\ [](EditorReady => EditorRendered)
    /\ [][TypstSourceKept]_vars
    /\ [][SetJsonRejected]_vars

\* a template that fails to parse was set behind a successful rendering,
\* and a rejected set_json came after it
C30_Witness ==
    /\ EditorReady
    /\ render_result.kind = "err"
    /\ editor.error # None
    /\ editor.template_source = IfTag(K_subtitle) \o <<"o", "p", "e", "n">>
    /\ editor.content_data = DataValid
    /\ editor.typst_source = <<"b", "a", "b">>
    /\ editor_ret.call = "set_json"
    /\ editor_ret.ret.kind = "err"

\* the error of a failed rendering is cleared by the next successful one
C30_WitnessRecovered ==
    /\ EditorReady
    /\ editor.ctor = "from_template"
    /\ render_result.kind = "ok"
    /\ editor.error = None
    /\ editor.template_source = VarTag(K_body) \o P_text
    /\ editor.content_data = DataShadow
    /\ data = DataShadow

====
